---- MODULE Spec2Model ----
(***************************************************************************)
(* State-machine model of the session/state engine of the interior-design  *)
(* assistant bot: the JSON profile store and conversation log              *)
(* (app/services/database.py), the 15-question survey FSM                  *)
(* (app/handlers/questions.py), the /restart confirmation protocol and the *)
(* text/photo dialogue handlers (app/handlers/ai_processing.py), as they   *)
(* are dispatched by the aiogram dispatcher set up in main.py.             *)
(*                                                                         *)
(* Every handler is a coroutine.  A handler runs without interruption      *)
(* between two awaits that reach the network (message.answer, edit_text,   *)
(* the file download, the AI completion run through asyncio.to_thread);    *)
(* at such an await the event loop may run pieces of other handlers.  The  *)
(* store calls of DatabaseService are synchronous, so each is atomic.      *)
(* One action of the model is one such uninterrupted piece of a handler.   *)
(*                                                                         *)
(* Python values are written as strings: "<None>", "<True>", "<False>",    *)
(* "<{}>", "<int 1>", "<t3>" (a timestamp); any other string is a str.     *)
(* Cyrillic literals are transliterated (the parser takes ASCII only).     *)
(***************************************************************************)
EXTENDS Naturals, Sequences, FiniteSets, TLC

\* ------------------------------------------------------------------ bounds
\* inbound updates (messages, callbacks) delivered in one behaviour of Spec
MaxInputs == 2
\* handlers that may be suspended at an await at the same time
MaxTasks == 2
\* SpecSurvey: answers of one behaviour that differ from the usual one
\* (the style modern, the text "a")
MaxVaried == 1
\* SpecLog: messages appended for user 1, and for user 2
MaxAppends == 56
MaxOtherAppends == 1
\* Telegram user ids
UserIds == {1, 2}

\* ------------------------------------------------------------ Python values
None == "<None>"
True == "<True>"
False == "<False>"
EmptyDict == "<{}>"
Int(n) == "<int " \o ToString(n) \o ">"
\* datetime.now().isoformat() at clock value n
Time(n) == "<t" \o ToString(n) \o ">"
Bool(b) == IF b THEN True ELSE False
\* bool(v): None, False, "", {} and 0 are falsy
Truthy(v) == v \notin {None, False, "", EmptyDict, Int(0)}
\* d.get(k, dflt)
Get(d, k, dflt) == IF k \in DOMAIN d THEN d[k] ELSE dflt
\* d[k] = v on a dict
SetKey(d, k, v) == [x \in (DOMAIN d) \cup {k} |-> IF x = k THEN v ELSE d[x]]
\* the empty dict / empty JSON table
Empty == [x \in {} |-> None]
\* str(user_id), the key of both JSON tables
UidStr(u) == ToString(u)

\* ------------------------------------------------------------------- texts
\* str.strip() on the texts of the model
Strip(t) ==
  CASE t = "Yes " -> "Yes"
    [] t = "yes " -> "yes"
    [] t = "  " -> ""
    [] OTHER -> t
\* str.lower() on the texts of the model
Lower(t) ==
  CASE t = "Yes " -> "yes "
    [] t = "Yes" -> "yes"
    [] t = "NO" -> "no"
    [] OTHER -> t
\* str.startswith('/')
StartsWithSlash(t) == t \in {"/start", "/test", "/survey", "/restart", "/help", "/status"}
\* ['da', 'yes', 'y', 'd'] with 'da', 'd' the Cyrillic words
AFFIRMATIVE == {"da", "yes", "y", "d"}
\* ['net', 'no', 'n', 'n_ru'] with 'net', 'n_ru' the Cyrillic words
NEGATIVE == {"net", "no", "n", "n_ru"}
\* OpenRouterService._is_russian: the text holds a Cyrillic letter ("gde
\* kupit" and "divan" stand for the Cyrillic words)
_is_russian(t) == Lower(t) \in {"da", "d", "net", "n_ru", "gde kupit divan", "gde kupit sofa"}
\* OpenRouterService._should_suggest_survey: the survey is not completed and
\* the text holds a personal keyword ('design', 'advice', ...)
_should_suggest_survey(user_input, user_session) ==
  /\ ~(IF "survey_completed" \in DOMAIN user_session
       THEN user_session["survey_completed"] \notin {None, False, ""} ELSE FALSE)
  /\ Lower(user_input) \in {"design advice"}
\* the response followed by _get_survey_suggestion(language)
WithSurveySuggestion(response, language) ==
  response \o " + survey suggestion in " \o language

\* the limit=5 of _prepare_conversation_context
CONTEXT_LIMIT == 5
\* the 6 of "keep only last 3 exchanges"
CONTEXT_MAX == 6
\* the loop of _prepare_conversation_context: an entry of a user becomes a
\* message of role user, an entry of the bot one of role assistant, any
\* other entry is left out
RECURSIVE ContextMessages(_)
ContextMessages(history) ==
  IF history = << >> THEN << >>
  ELSE LET msg == Head(history)
           rest == ContextMessages(Tail(history))
       IN  IF msg.sender = "user"
           THEN << [role |-> "user", content |-> msg.message] >> \o rest
           ELSE IF msg.sender = "bot"
           THEN << [role |-> "assistant", content |-> msg.message] >> \o rest
           ELSE rest

\* ----------------------------------------------------- ProductSearchService
\* product_categories: the keywords of a language (a few of each list)
CategoryKeywords(language) ==
  IF language = "russian" THEN {"divan", "lampa"} ELSE {"sofa", "lamp"}
\* specific_indicators of _is_specific_query
SPECIFIC_INDICATORS == {"gde kupit", "where to buy", "price", "order"}
\* the substrings of the lowered texts of the model that are category
\* keywords or specific indicators (keyword in text_lower)
PartsOf(t) ==
  CASE t = "where to buy sofa" -> {"where to buy", "sofa"}
    [] t = "gde kupit divan" -> {"gde kupit", "divan"}
    [] t = "gde kupit sofa" -> {"gde kupit", "sofa"}
    [] t = "sofa" -> {"sofa"}
    [] t = "price" -> {"price"}
    [] OTHER -> {}
\* _extract_product_name on the texts of the model
_extract_product_name(t) ==
  CASE t = "where to buy sofa" -> "sofa"
    [] t = "gde kupit divan" -> "divan"
    [] t = "gde kupit sofa" -> "sofa"
    [] OTHER -> t
\* a check that takes every query for a specific one
_is_specific_query_any(text_lower) == TRUE
_is_specific_query(text_lower) == PartsOf(text_lower) \cap SPECIFIC_INDICATORS # {}
\* detect_product_query: None, or the product name and is_specific_query
detect_product_query(text, language) ==
  IF PartsOf(Lower(text)) \cap CategoryKeywords(language) # {}
  THEN [product_name |-> _extract_product_name(text),
        is_specific_query |-> _is_specific_query(Lower(text))]
  ELSE [product_name |-> None, is_specific_query |-> FALSE]
\* format_product_response over generate_product_links
format_product_response(product_name, language) ==
  "where to find " \o product_name \o ": links of the " \o language \o " stores"

\* ---------------------------------------------------------------- survey
\* DESIGN_STYLES keys, the callback data after 'style_'
DESIGN_STYLES == {"modern", "classic", "scandinavian", "industrial", "rustic", "contemporary"}
\* DESIGN_STYLES[style]['description']
StyleDescription(style) == "description of " \o style
\* DESIGN_STYLES[style]['name']
StyleName(style) == "name of " \o style
\* the profile field each question stores, in the order of DesignSurveyStates
SurveyFields ==
  << "preferred_style", "color_preference", "material_preference",
     "space_type", "room_preference", "layout_style",
     "functionality_preference", "lighting_preference", "storage_preference",
     "budget_range", "timeline", "project_priority",
     "lifestyle", "family_needs", "personal_touch" >>
NumQuestions == Len(SurveyFields)

\* -------------------------------------------------------- DatabaseService
\* the file accesses that fail now: "users", "conversations" for a load that
\* fails (IOError, JSONDecodeError), "users:w" for an open(users_file, 'w')
\* that raises IOError (the file is left as it is)
VARIABLE unreadable

\* _load_users_data on the file content tbl: {} when the load fails
_load_users_data(tbl) == IF "users" \in unreadable THEN Empty ELSE tbl
\* the file content after _save_users_data(data) on the file content tbl
_save_users_data(tbl, data) == IF "users:w" \in unreadable THEN tbl ELSE data
\* _load_conversations_data on the file content conv
_load_conversations_data(conv) == IF "conversations" \in unreadable THEN Empty ELSE conv
\* the file content after _save_conversations_data(data) on the file content conv
_save_conversations_data(conv, data) ==
  IF "conversations:w" \in unreadable THEN conv ELSE data

\* the 50 of add_conversation_message
LOG_CAP == 50

_create_default_user_session(u, t) ==
  [k \in {"user_id", "created_at", "updated_at", "language", "survey_completed",
          "preferences", "in_survey_mode", "start_option_chosen"} |->
     CASE k = "user_id" -> Int(u)
       [] k = "created_at" -> Time(t)
       [] k = "updated_at" -> Time(t)
       [] k = "language" -> "auto"
       [] k = "survey_completed" -> False
       [] k = "preferences" -> EmptyDict
       [] k = "in_survey_mode" -> False
       [] k = "start_option_chosen" -> None]

\* a get_user_session that stores a new default record for every caller
get_user_session_table_refresh(tbl, u, t) ==
  SetKey(_load_users_data(tbl), UidStr(u), _create_default_user_session(u, t))

\* the table after get_user_session(u): a missing user is created and saved
get_user_session_table(tbl, u, t) ==
  IF UidStr(u) \in DOMAIN _load_users_data(tbl) THEN tbl
  ELSE _save_users_data(tbl, SetKey(_load_users_data(tbl), UidStr(u),
                                    _create_default_user_session(u, t)))

\* the record get_user_session(u) returns
get_user_session(tbl, u, t) ==
  IF UidStr(u) \in DOMAIN _load_users_data(tbl)
  THEN _load_users_data(tbl)[UidStr(u)]
  ELSE _create_default_user_session(u, t)

\* a save that keeps only the updated user's record
update_user_field_single(tbl, u, field, value, t) ==
  LET base == get_user_session_table(tbl, u, t)
  IN  SetKey(Empty, UidStr(u),
             SetKey(SetKey(base[UidStr(u)], field, value), "updated_at", Time(t)))

\* an update that rebuilds the record from the defaults every time
update_user_field_fresh(tbl, u, field, value, t) ==
  SetKey(tbl, UidStr(u),
         SetKey(SetKey(_create_default_user_session(u, t), field, value),
                "updated_at", Time(t)))

\* an update that leaves updated_at alone
update_user_field_nostamp(tbl, u, field, value, t) ==
  LET base == get_user_session_table(tbl, u, t)
  IN  SetKey(base, UidStr(u), SetKey(base[UidStr(u)], field, value))

\* the table after update_user_field(u, field, value)
update_user_field(tbl, u, field, value, t) ==
  LET users_data == _load_users_data(tbl)
      session == get_user_session(tbl, u, t)
  IN  _save_users_data(tbl,
        SetKey(users_data, UidStr(u),
               SetKey(SetKey(session, field, value), "updated_at", Time(t))))

\* lst[-n:] for n >= 1
LastN(lst, n) == IF Len(lst) <= n THEN lst ELSE SubSeq(lst, Len(lst) - n + 1, Len(lst))

\* an append that trims to the first 50 entries
add_conversation_message_head(conv, u, message, sender, t) ==
  LET data == _load_conversations_data(conv)
      old == IF UidStr(u) \in DOMAIN data THEN data[UidStr(u)] ELSE << >>
      new == Append(old, [message |-> message, sender |-> sender, timestamp |-> Time(t)])
  IN  _save_conversations_data(conv,
        SetKey(data, UidStr(u), IF Len(new) > LOG_CAP THEN SubSeq(new, 1, LOG_CAP) ELSE new))

\* the conversations table after add_conversation_message(u, message, sender)
add_conversation_message(conv, u, message, sender, t) ==
  LET data == _load_conversations_data(conv)
      old == IF UidStr(u) \in DOMAIN data THEN data[UidStr(u)] ELSE << >>
      new == Append(old, [message |-> message, sender |-> sender, timestamp |-> Time(t)])
  IN  _save_conversations_data(conv,
        SetKey(data, UidStr(u), IF Len(new) > LOG_CAP THEN LastN(new, LOG_CAP) ELSE new))

\* lst[-limit:] for an int limit: the last limit entries when limit > 0, the
\* whole list when limit = 0 (-0 is 0, so the slice starts at index 0), and
\* lst[k:] when limit = -k
NegSlice(lst, limit) ==
  LET n == Len(lst)
      start == IF limit > 0 THEN (IF limit >= n THEN 0 ELSE n - limit)
               ELSE (IF 0 - limit >= n THEN n ELSE 0 - limit)
  IN  SubSeq(lst, start + 1, n)

\* a history that returns the first limit entries
get_conversation_history_head(conv, u, limit) ==
  LET conversations_data == _load_conversations_data(conv)
  IN  IF UidStr(u) \in DOMAIN conversations_data
      THEN SubSeq(conversations_data[UidStr(u)], 1,
                  IF limit <= Len(conversations_data[UidStr(u)])
                  THEN limit ELSE Len(conversations_data[UidStr(u)]))
      ELSE << >>

\* get_conversation_history(u, limit) on the file content conv
get_conversation_history(conv, u, limit) ==
  LET conversations_data == _load_conversations_data(conv)
  IN  IF UidStr(u) \in DOMAIN conversations_data
      THEN NegSlice(conversations_data[UidStr(u)], limit)
      ELSE << >>

\* ---------------------------------------------------------- reset_user_data
\* the new_session of reset_user_data
ResetSession(u, t) ==
  SetKey(_create_default_user_session(u, t), "pending_confirmation", None)

\* a reset that keeps the conversation history
reset_user_data_keep_log(tbl, conv, u, t) ==
  [ok |-> TRUE, users |-> SetKey(tbl, UidStr(u), ResetSession(u, t)), conv |-> conv]

\* a reset that keeps the survey answers of the old record
reset_user_data_keep_fields(tbl, conv, u, t) ==
  [ok |-> TRUE,
   users |-> SetKey(tbl, UidStr(u),
               [k \in DOMAIN tbl[UidStr(u)] \cup DOMAIN ResetSession(u, t) |->
                  IF k \in DOMAIN ResetSession(u, t) THEN ResetSession(u, t)[k]
                  ELSE tbl[UidStr(u)][k]]),
   conv |-> IF UidStr(u) \in DOMAIN conv THEN SetKey(conv, UidStr(u), << >>) ELSE conv]

\* reset_user_data(u): the users file exists once any record was saved; the
\* record of u is replaced by new_session and u's conversation list emptied.
\* It reads both files with json.load itself: a failing load of the users
\* file ends in the outer except (False, nothing written), a failing load of
\* the conversations file, or a failing open of it for writing, in the inner
\* one (the list is not emptied, True is returned all the same).
reset_user_data(tbl, conv, u, t) ==
  IF "users" \in unreadable \/ "users:w" \in unreadable
  THEN [ok |-> FALSE, users |-> tbl, conv |-> conv]
  ELSE [ok |-> TRUE,
        users |-> SetKey(tbl, UidStr(u), ResetSession(u, t)),
        conv |-> IF /\ UidStr(u) \in DOMAIN conv
                    /\ "conversations" \notin unreadable
                    /\ "conversations:w" \notin unreadable
                 THEN SetKey(conv, UidStr(u), << >>) ELSE conv]

\* ------------------------------------------------------- the field merge
PROTECTED == {"user_id", "created_at", "updated_at"}
\* a merge that writes every key whose value differs
MergeKeys_all(before, after) ==
  {k \in DOMAIN after : after[k] # Get(before, k, None)}

\* the keys the merge loop of handle_text_message / handle_photo_message writes
MergeKeys(before, after) ==
  IF after = before THEN {}
  ELSE {k \in DOMAIN after :
          /\ k \notin PROTECTED
          /\ after[k] # Get(before, k, None)
          /\ after[k] # None
          /\ after[k] # ""}
\* a merge that saves the returned snapshot as the user's record
MergeInto_snapshot(tbl, u, after, keys, t) ==
  IF keys = {} THEN tbl ELSE SetKey(tbl, UidStr(u), SetKey(after, "updated_at", Time(t)))

\* the users table after the merge loop: one update_user_field per key
RECURSIVE MergeInto(_, _, _, _, _)
MergeInto(tbl, u, after, keys, t) ==
  IF keys = {} THEN tbl
  ELSE LET k == CHOOSE x \in keys : TRUE
       IN  MergeInto(update_user_field(tbl, u, k, after[k], t), u, after, keys \ {k}, t)

\* the merge loop run over the keys in a given order
RECURSIVE MergeInOrder(_, _, _, _, _)
MergeInOrder(tbl, u, after, order, t) ==
  IF order = << >> THEN tbl
  ELSE MergeInOrder(update_user_field(tbl, u, Head(order), after[Head(order)], t),
                    u, after, Tail(order), t)

\* ------------------------------------------------------------ reply texts
NothingToReset == "nothing to reset"
ConfirmationText == "reset? yes/no"
RestartMessage == "data reset"
ResetErrorMessage == "reset failed"
CancelMessage == "reset cancelled"
InvalidMessage == "answer yes or no"
MultiplePhotosText == "one photo at a time"
PhotoApology == "photo analysis error"
TextApology == "message processing error"
\* the replies of the except branches of start_command, of the ask_* and
\* handle_* functions of the survey, and of complete_design_survey
StartApology == "sorry, an error"
SurveyApology == "an error occurred, try again"
CompletionApology == "error completing the survey"
Summary == "survey summary"
AiUnavailableText == "unable to process"
AiUnavailableImage == "unable to analyze images"
AiTrouble == "trouble generating a response"
AiReply == "ai reply"
PhotoLogEntry == "[Photo: Image with dimensions]"
WelcomeBack == "welcome, profile ready"
WelcomeNew == "welcome, take the test"

\* ------------------------------------------------------------------ state
VARIABLES
  users,          \* users.json: str(user_id) -> profile dict
  conversations,  \* conversations.json: str(user_id) -> list of messages
  fsm,            \* aiogram FSM storage (in memory): user -> 0 (no state) or question 1..15
  tasks,          \* handlers suspended at an await
  now,            \* the clock datetime.now() reads: it moves on with every arrival
  client,         \* OpenRouterService.client is set (an API key is configured)
  ev,             \* the handler piece that ran last and what it did
  inputs,         \* updates delivered so far
  run,            \* per user: the answers supplied since the last survey start
  appended,       \* per user: every message the append driver of SpecLog passed on
  pair,           \* the (before, after) snapshots the merge driver of SpecMerge applies
  used            \* what the environment has spent of its bounds

vars ==
  << users, conversations, fsm, tasks, now, client, unreadable, ev, inputs, run, appended,
     pair, used >>

TaskIds == 1..MaxTasks
IdleTask ==
  [pc |-> "idle", h |-> "", user |-> 0, text |-> None, session |-> Empty, k |-> 0,
   before |-> [profile |-> Empty, log |-> << >>]]
Idle(t) == tasks[t].pc = "idle"
\* the slot a newly suspended handler takes
FreeTask == CHOOSE t \in TaskIds : Idle(t) /\ \A s \in TaskIds : s < t => ~Idle(s)
HasFreeTask == \E t \in TaskIds : Idle(t)
\* (before: the stored profile and log of u when the update arrived)
Suspend(h, pc, u, text, session, k) ==
  [tasks EXCEPT ![FreeTask] =
     [pc |-> pc, h |-> h, user |-> u, text |-> text, session |-> session, k |-> k,
      before |-> [profile |-> IF UidStr(u) \in DOMAIN users THEN users[UidStr(u)] ELSE Empty,
                  log |-> IF UidStr(u) \in DOMAIN conversations
                          THEN conversations[UidStr(u)] ELSE << >>]]]
Finish(t) == [tasks EXCEPT ![t] = IdleTask]

\* what a handler piece did: handler, user, whether it is the piece that starts
\* at the arrival of the update, the text sent, the profile keys passed to
\* update_user_field ("*" for a whole-record replacement), whether an AI
\* completion was started, whether the store was read or written; arg and
\* result hold the limit and the list of a history read, or the context
\* messages built for a completion; len is the length of a text handed to
\* message.answer where the lengths are followed (SpecLength)
Event(h, u, recv, reply, wrote, ai, store) ==
  [h |-> h, user |-> u, recv |-> recv, reply |-> reply, wrote |-> wrote, ai |-> ai,
   store |-> store, text |-> None, arg |-> 0, result |-> << >>, len |-> 0]
\* the same with the text of the inbound message
TextEvent(h, u, recv, reply, wrote, ai, store, text) ==
  [Event(h, u, recv, reply, wrote, ai, store) EXCEPT !.text = text]
NoEvent == Event("", 0, FALSE, "", {}, FALSE, FALSE)

Busy(u) == \E t \in TaskIds : tasks[t].pc # "idle" /\ tasks[t].user = u
\* the run of answers of u: restarted by a survey start, extended by the input
\* the survey waits for (the style button first, then 14 messages) when no
\* other handler of u is under way, and broken by anything else
RunStart(u) == [run EXCEPT ![u] = [ok |-> ~Busy(u), given |-> << >>]]
RunBreak(u) == [run EXCEPT ![u].ok = FALSE]
RunGive(u, kind, v) ==
  IF /\ run[u].ok
     /\ ~Busy(u)
     /\ Len(run[u].given) < NumQuestions
     /\ (kind = "style") = (Len(run[u].given) = 0)
  THEN [run EXCEPT ![u].given = Append(@, v)]
  ELSE RunBreak(u)

\* ---------------------------------------------------------------- routing
\* an inbound message: text (None for a photo), photo, media_group_id, caption
Message(text, photo, group, caption) ==
  [text |-> text, photo |-> photo, group |-> group, caption |-> caption]
TextMessage(text) == Message(text, FALSE, None, None)
PhotoMessage(group, caption) == Message(None, TRUE, group, caption)
\* the Command(c) filter
IsCommand(m, c) == m.text = "/" \o c
\* The handler the dispatcher picks: routers in the order of main.py (start,
\* questions, ai_processing), handlers in the order they are registered, the
\* first whose filter passes.  The state filters of questions.py (questions
\* 2..15) pass for any message; question 1 has no message handler.
Route(u, m) ==
  CASE IsCommand(m, "start") -> "start_command"
    [] IsCommand(m, "test") -> "start_design_survey"
    [] ~IsCommand(m, "start") /\ ~IsCommand(m, "test")
         /\ fsm[u] \in 2..(NumQuestions - 1) -> "handle_question"
    [] ~IsCommand(m, "start") /\ ~IsCommand(m, "test")
         /\ fsm[u] = NumQuestions -> "handle_personal_touch"
    [] OTHER ->
         CASE IsCommand(m, "survey") -> "start_survey_english"
           [] IsCommand(m, "restart") -> "restart_command"
           [] ~m.photo /\ m.text # None /\ ~StartsWithSlash(m.text) -> "handle_text_message"
           [] m.photo -> "handle_photo_message"
           [] IsCommand(m, "help") -> "help_command"
           [] IsCommand(m, "status") -> "status_command"
           [] OTHER -> "unhandled"

\* --------------------------------------------------------------- start.py
start_command(u, m) ==
  /\ Route(u, m) = "start_command"
  /\ HasFreeTask
  /\ LET tbl == get_user_session_table(users, u, now)
         session == get_user_session(users, u, now)
         welcome == IF Truthy(Get(session, "survey_completed", False))
                    THEN WelcomeBack ELSE WelcomeNew
     IN  /\ users' = tbl
         /\ tasks' = Suspend("start_command", "welcome_send", u, welcome, session, 0)
         /\ ev' = Event("start_command", u, TRUE, welcome, {}, FALSE, TRUE)
  /\ run' = RunBreak(u)
  /\ inputs' = inputs + 1
  /\ now' = now + 1
  /\ UNCHANGED << conversations, fsm, client, unreadable, pair, appended >>

\* message.answer(welcome_text) returned: the welcome is logged; when it
\* raised, the except branch only sends an apology
start_command_sent(t, ok) ==
  /\ tasks[t].pc = "welcome_send"
  /\ conversations' = IF ok
       THEN add_conversation_message(conversations, tasks[t].user, tasks[t].text, "bot", now)
       ELSE conversations
  /\ tasks' = Finish(t)
  /\ ev' = Event("start_command", tasks[t].user, FALSE, IF ok THEN "" ELSE StartApology, {},
                 FALSE, ok)
  /\ UNCHANGED << users, fsm, now, client, unreadable, pair, inputs, run, appended >>

\* ----------------------------------------------------------- questions.py
\* start_design_survey and start_survey_english up to the first send
SurveyStart(h, u) ==
  /\ HasFreeTask
  /\ fsm' = [fsm EXCEPT ![u] = 0]
  /\ users' = update_user_field(users, u, "in_survey_mode", True, now)
  /\ tasks' = Suspend(h, "ask", u, None, Empty, 1)
  /\ ev' = Event(h, u, TRUE, "survey intro", {"in_survey_mode"}, FALSE, TRUE)
  /\ run' = RunStart(u)
  /\ inputs' = inputs + 1
  /\ now' = now + 1
  /\ UNCHANGED << conversations, client, unreadable, pair, appended >>

start_design_survey(u, m) ==
  /\ Route(u, m) = "start_design_survey"
  /\ SurveyStart("start_design_survey", u)

start_survey_english(u, m) ==
  /\ Route(u, m) = "start_survey_english"
  /\ SurveyStart("start_survey_english", u)

\* an ask_* that sends its prompt and leaves the FSM state as it is
ask_question_stay(t, ok) ==
  /\ tasks[t].pc = "ask"
  /\ tasks' = Finish(t)
  /\ ev' = Event("ask_question", tasks[t].user, FALSE,
                 IF ok THEN "question" ELSE SurveyApology, {}, FALSE, FALSE)
  /\ run' = IF ok THEN run ELSE RunBreak(tasks[t].user)
  /\ UNCHANGED << users, conversations, fsm, now, client, unreadable, pair, inputs, appended >>

\* ask_style_preference ... ask_personal_touch: the prompt of question k was
\* sent and the FSM is set to wait for it; when a send raised (the prompt, or
\* the intro or the edit before it) the state is left as it was
ask_question(t, ok) ==
  /\ tasks[t].pc = "ask"
  /\ fsm' = IF ok THEN [fsm EXCEPT ![tasks[t].user] = tasks[t].k] ELSE fsm
  /\ tasks' = Finish(t)
  /\ ev' = Event("ask_question", tasks[t].user, FALSE,
                 IF ok THEN "question" ELSE SurveyApology, {}, FALSE, FALSE)
  /\ run' = IF ok THEN run ELSE RunBreak(tasks[t].user)
  /\ UNCHANGED << users, conversations, now, client, unreadable, pair, inputs, appended >>

\* the callback handler of the style buttons (it has no state filter)
handle_style_choice(u, style) ==
  /\ HasFreeTask
  /\ LET tbl1 == update_user_field(users, u, "preferred_style", style, now)
         tbl2 == update_user_field(tbl1, u, "style_description", StyleDescription(style), now)
     IN  users' = tbl2
  /\ conversations' =
       add_conversation_message(conversations, u, "style chosen: " \o StyleName(style),
                                "user", now)
  /\ tasks' = Suspend("handle_style_choice", "ask", u, None, Empty, 2)
  /\ ev' = Event("handle_style_choice", u, TRUE, "style confirmed",
                 {"preferred_style", "style_description"}, FALSE, TRUE)
  /\ run' = RunGive(u, "style", style)
  /\ inputs' = inputs + 1
  /\ now' = now + 1
  /\ UNCHANGED << fsm, client, unreadable, pair, appended >>

\* handle_color_preference ... handle_family_needs (questions 2..14)
handle_question(u, m) ==
  /\ Route(u, m) = "handle_question"
  /\ HasFreeTask
  /\ users' = update_user_field(users, u, SurveyFields[fsm[u]], m.text, now)
  /\ conversations' = add_conversation_message(conversations, u, m.text, "user", now)
  /\ tasks' = Suspend("handle_question", "ask", u, None, Empty, fsm[u] + 1)
  /\ ev' = TextEvent("handle_question", u, TRUE, "", {SurveyFields[fsm[u]]}, FALSE, TRUE,
                     m.text)
  /\ run' = IF m.text # None /\ ~StartsWithSlash(m.text)
            THEN RunGive(u, "text", m.text) ELSE RunBreak(u)
  /\ inputs' = inputs + 1
  /\ now' = now + 1
  /\ UNCHANGED << fsm, client, unreadable, pair, appended >>

\* handle_personal_touch with complete_design_survey up to the send of the summary
handle_personal_touch(u, m) ==
  /\ Route(u, m) = "handle_personal_touch"
  /\ HasFreeTask
  /\ LET tbl1 == update_user_field(users, u, "personal_touch", m.text, now)
         tbl2 == update_user_field(tbl1, u, "survey_completed", True, now)
         tbl3 == update_user_field(tbl2, u, "in_survey_mode", False, now)
     IN  users' = get_user_session_table(tbl3, u, now)
  /\ LET c1 == add_conversation_message(conversations, u, m.text, "user", now)
     IN  conversations' = add_conversation_message(c1, u, Summary, "bot", now)
  /\ tasks' = Suspend("handle_personal_touch", "summary_send", u, None, Empty, 0)
  /\ ev' = TextEvent("handle_personal_touch", u, TRUE, Summary,
                     {"personal_touch", "survey_completed", "in_survey_mode"}, FALSE, TRUE,
                     m.text)
  /\ run' = IF m.text # None /\ ~StartsWithSlash(m.text)
            THEN RunGive(u, "text", m.text) ELSE RunBreak(u)
  /\ inputs' = inputs + 1
  /\ now' = now + 1
  /\ UNCHANGED << fsm, client, unreadable, pair, appended >>

\* complete_design_survey after message.answer(summary): state.clear(), which
\* is skipped when the send raised
complete_design_survey(t, ok) ==
  /\ tasks[t].pc = "summary_send"
  /\ fsm' = IF ok THEN [fsm EXCEPT ![tasks[t].user] = 0] ELSE fsm
  /\ tasks' = Finish(t)
  /\ ev' = Event("complete_design_survey", tasks[t].user, FALSE,
                 IF ok THEN "" ELSE CompletionApology, {}, FALSE, FALSE)
  /\ run' = IF ok THEN run ELSE RunBreak(tasks[t].user)
  /\ UNCHANGED << users, conversations, now, client, unreadable, pair, inputs, appended >>

\* ------------------------------------------------------- ai_processing.py
\* a has_data that is true of any record that has keys
HasData_nonempty(session) == DOMAIN session # {}

\* has_data of restart_command
HasData(session) ==
  \/ Truthy(Get(session, "name", None))
  \/ Truthy(Get(session, "age", None))
  \/ Truthy(Get(session, "interests", None))
  \/ Truthy(Get(session, "preferences", None))
  \/ Truthy(Get(session, "survey_completed", False))

restart_command(u, m) ==
  /\ Route(u, m) = "restart_command"
  /\ LET tbl == get_user_session_table(users, u, now)
         session == get_user_session(users, u, now)
     IN  IF ~HasData(session)
         THEN /\ users' = tbl
              /\ ev' = Event("restart_command", u, TRUE, NothingToReset, {}, FALSE, TRUE)
         ELSE /\ users' = update_user_field(tbl, u, "pending_confirmation", "restart", now)
              /\ ev' = Event("restart_command", u, TRUE, ConfirmationText,
                             {"pending_confirmation"}, FALSE, TRUE)
  /\ run' = RunBreak(u)
  /\ inputs' = inputs + 1
  /\ now' = now + 1
  /\ UNCHANGED << conversations, fsm, tasks, client, unreadable, pair, appended >>

\* a confirmation that compares the stripped input without lowering it
handle_restart_confirmation_case(tbl, conv, u, user_input, t) ==
  LET user_input_lower == Strip(user_input)
      c1 == add_conversation_message(conv, u, user_input, "user", t)
  IN  IF user_input_lower \in AFFIRMATIVE
      THEN LET r == reset_user_data(tbl, c1, u, t)
           IN  [branch |-> "yes", users |-> r.users, wrote |-> {"*"},
                reply |-> RestartMessage,
                conv |-> add_conversation_message(r.conv, u, RestartMessage, "bot", t)]
      ELSE IF user_input_lower \in NEGATIVE
      THEN [branch |-> "no", wrote |-> {"pending_confirmation"},
            users |-> update_user_field(tbl, u, "pending_confirmation", None, t),
            reply |-> CancelMessage,
            conv |-> add_conversation_message(c1, u, CancelMessage, "bot", t)]
      ELSE [branch |-> "other", users |-> tbl, wrote |-> {}, reply |-> InvalidMessage,
            conv |-> add_conversation_message(c1, u, InvalidMessage, "bot", t)]

\* a confirmation that gives up after one unrecognised answer: the re-prompt
\* is sent and the request dropped
handle_restart_confirmation_once(tbl, conv, u, user_input, t) ==
  LET user_input_lower == Strip(Lower(user_input))
      c1 == add_conversation_message(conv, u, user_input, "user", t)
  IN  IF user_input_lower \in AFFIRMATIVE
      THEN LET r == reset_user_data(tbl, c1, u, t)
           IN  [branch |-> IF r.ok THEN "yes" ELSE "yes_failed", users |-> r.users,
                wrote |-> IF r.ok THEN {"*"} ELSE {},
                reply |-> IF r.ok THEN RestartMessage ELSE ResetErrorMessage,
                conv |-> add_conversation_message(
                           r.conv, u, IF r.ok THEN RestartMessage ELSE ResetErrorMessage,
                           "bot", t)]
      ELSE IF user_input_lower \in NEGATIVE
      THEN [branch |-> "no", wrote |-> {"pending_confirmation"},
            users |-> update_user_field(tbl, u, "pending_confirmation", None, t),
            reply |-> CancelMessage,
            conv |-> add_conversation_message(c1, u, CancelMessage, "bot", t)]
      ELSE [branch |-> "other", wrote |-> {},
            users |-> update_user_field(tbl, u, "pending_confirmation", None, t),
            reply |-> InvalidMessage,
            conv |-> add_conversation_message(c1, u, InvalidMessage, "bot", t)]

\* handle_restart_confirmation: what it leaves in the two tables and replies
handle_restart_confirmation(tbl, conv, u, user_input, t) ==
  LET user_input_lower == Strip(Lower(user_input))
      c1 == add_conversation_message(conv, u, user_input, "user", t)
  IN  IF user_input_lower \in AFFIRMATIVE
      THEN LET r == reset_user_data(tbl, c1, u, t)
           IN  IF r.ok
               THEN [branch |-> "yes", users |-> r.users, wrote |-> {"*"},
                     reply |-> RestartMessage,
                     conv |-> add_conversation_message(r.conv, u, RestartMessage, "bot", t)]
               ELSE [branch |-> "yes_failed", users |-> r.users, wrote |-> {},
                     reply |-> ResetErrorMessage,
                     conv |-> add_conversation_message(r.conv, u, ResetErrorMessage, "bot", t)]
      ELSE IF user_input_lower \in NEGATIVE
      THEN [branch |-> "no", wrote |-> {"pending_confirmation"},
            users |-> update_user_field(tbl, u, "pending_confirmation", None, t),
            reply |-> CancelMessage,
            conv |-> add_conversation_message(c1, u, CancelMessage, "bot", t)]
      ELSE [branch |-> "other", users |-> tbl, wrote |-> {}, reply |-> InvalidMessage,
            conv |-> add_conversation_message(c1, u, InvalidMessage, "bot", t)]

\* a context built from the first entries of the log
_prepare_conversation_context_oldest(conv, user_session) ==
  LET user_id == Get(user_session, "user_id", None)
  IN  IF ~Truthy(user_id) THEN << >>
      ELSE ContextMessages(
             get_conversation_history_head(conv, CHOOSE u \in UserIds : Int(u) = user_id,
                                           CONTEXT_LIMIT))

\* _prepare_conversation_context(user_session) on the file content conv
_prepare_conversation_context(conv, user_session) ==
  LET user_id == Get(user_session, "user_id", None)
  IN  IF ~Truthy(user_id) THEN << >>
      ELSE LET conversation_history ==
                 get_conversation_history(conv, CHOOSE u \in UserIds : Int(u) = user_id,
                                          CONTEXT_LIMIT)
               context_messages == ContextMessages(conversation_history)
           IN  IF Len(context_messages) > CONTEXT_MAX
               THEN NegSlice(context_messages, CONTEXT_MAX)
               ELSE context_messages

\* the language analyze_text_with_ai / analyze_image_with_ai detects
DetectLanguage(text) == IF _is_russian(text) THEN "russian" ELSE "english"

\* handle_text_message from the arrival of the message to its first await on
\* the AI completion, or to its end when it returns before that
handle_text_message(u, m) ==
  /\ Route(u, m) = "handle_text_message"
  /\ inputs' = inputs + 1
  /\ now' = now + 1
  /\ UNCHANGED << fsm, client, unreadable, pair, appended >>
  /\ run' = RunBreak(u)
  /\ IF ~Truthy(m.text) \/ ~Truthy(Strip(m.text))
     THEN /\ ev' = TextEvent("handle_text_message:empty", u, TRUE, "", {}, FALSE, FALSE, m.text)
          /\ UNCHANGED << users, conversations, tasks >>
     ELSE
     LET user_input == Strip(m.text)
         tbl == get_user_session_table(users, u, now)
         user_session == get_user_session(users, u, now)
     IN  IF Truthy(Get(user_session, "in_survey_mode", False))
         THEN /\ users' = tbl
              /\ ev' = TextEvent("handle_text_message:survey", u, TRUE, "", {}, FALSE, TRUE,
                                 m.text)
              /\ UNCHANGED << conversations, tasks >>
         ELSE IF Get(user_session, "pending_confirmation", None) = "restart"
         THEN LET r == handle_restart_confirmation(tbl, conversations, u, user_input, now)
              IN  /\ users' = r.users
                  /\ conversations' = r.conv
                  /\ ev' = TextEvent("handle_restart_confirmation:" \o r.branch, u, TRUE,
                                     r.reply, r.wrote, FALSE, TRUE, m.text)
                  /\ UNCHANGED tasks
         ELSE IF ~client
         THEN \* analyze_text_with_ai returns (user_session, apology) at once
              /\ users' = tbl
              /\ conversations' =
                   add_conversation_message(
                     add_conversation_message(conversations, u, user_input, "user", now),
                     u, AiUnavailableText, "bot", now)
              /\ ev' = TextEvent("handle_text_message:ai", u, TRUE, AiUnavailableText, {},
                                 FALSE, TRUE, m.text)
              /\ UNCHANGED tasks
         ELSE IF detect_product_query(user_input, DetectLanguage(user_input)).is_specific_query
         THEN \* analyze_text_with_ai returns the product links without an await
              LET language == DetectLanguage(user_input)
                  updated_session == SetKey(user_session, "language", language)
                  response == format_product_response(
                                detect_product_query(user_input, language).product_name,
                                language)
                  keys == MergeKeys(user_session, updated_session)
              IN  /\ users' = MergeInto(tbl, u, updated_session, keys, now)
                  /\ conversations' =
                       add_conversation_message(
                         add_conversation_message(conversations, u, user_input, "user", now),
                         u, response, "bot", now)
                  /\ ev' = TextEvent("handle_text_message:product", u, TRUE, response, keys,
                                     FALSE, TRUE, m.text)
                  /\ UNCHANGED tasks
         ELSE /\ HasFreeTask
              /\ users' = tbl
              /\ tasks' = Suspend("handle_text_message", "ai_text", u, user_input,
                                  user_session, 0)
              /\ ev' = [TextEvent("handle_text_message:ai", u, TRUE, "", {}, TRUE, TRUE,
                                  m.text)
                         EXCEPT !.result =
                           _prepare_conversation_context(conversations, user_session)]
              /\ UNCHANGED conversations

\* a handler that lets the failure of the completion reach its outer except:
\* apology, nothing logged
handle_text_message_ai_returned_raise(t, ok) ==
  /\ tasks[t].pc = "ai_text"
  /\ ~ok
  /\ ev' = Event("handle_text_message:failed", tasks[t].user, FALSE, TextApology, {},
                 FALSE, FALSE)
  /\ tasks' = Finish(t)
  /\ UNCHANGED << users, conversations, fsm, now, client, unreadable, pair, inputs, run,
                  appended >>

\* the AI completion returned (ok) or failed (_get_ai_response then returns
\* its apology): the merge loop, the two log entries, the reply
handle_text_message_ai_returned(t, ok) ==
  /\ tasks[t].pc = "ai_text"
  /\ LET u == tasks[t].user
         user_session == tasks[t].session
         updated_session == SetKey(user_session, "language", DetectLanguage(tasks[t].text))
         completion == IF ok THEN AiReply ELSE AiTrouble
         response == IF _should_suggest_survey(tasks[t].text, user_session)
                     THEN WithSurveySuggestion(completion, DetectLanguage(tasks[t].text))
                     ELSE completion
         keys == MergeKeys(user_session, updated_session)
     IN  /\ users' = MergeInto(users, u, updated_session, keys, now)
         /\ conversations' =
              add_conversation_message(
                add_conversation_message(conversations, u, tasks[t].text, "user", now),
                u, response, "bot", now)
         /\ ev' = Event("handle_text_message:merge", u, FALSE, response, keys, FALSE, TRUE)
  /\ tasks' = Finish(t)
  /\ UNCHANGED << fsm, now, client, unreadable, pair, inputs, run, appended >>

\* handle_photo_message from the arrival of the photo to the download
handle_photo_message(u, m) ==
  /\ Route(u, m) = "handle_photo_message"
  /\ inputs' = inputs + 1
  /\ now' = now + 1
  /\ UNCHANGED << conversations, fsm, client, unreadable, pair, appended >>
  /\ run' = RunBreak(u)
  /\ LET tbl == get_user_session_table(users, u, now)
         user_session == get_user_session(users, u, now)
         media_group_key == "media_group_" \o m.group
     IN  IF Truthy(m.group)
         THEN IF Truthy(Get(user_session, media_group_key, None))
              THEN /\ users' = tbl
                   /\ ev' = Event("handle_photo_message:group_seen", u, TRUE, "", {},
                                  FALSE, TRUE)
                   /\ UNCHANGED tasks
              ELSE /\ users' = update_user_field(tbl, u, media_group_key, True, now)
                   /\ ev' = Event("handle_photo_message:group", u, TRUE, MultiplePhotosText,
                                  {media_group_key}, FALSE, TRUE)
                   /\ UNCHANGED tasks
         ELSE /\ HasFreeTask
              /\ users' = tbl
              /\ tasks' = Suspend("handle_photo_message", "download", u,
                                  IF m.caption = None THEN "" ELSE m.caption,
                                  user_session, 0)
              /\ ev' = Event("handle_photo_message:download", u, TRUE, "", {}, FALSE, TRUE)

\* the download returned: the survey-mode check, the image description, and
\* the start of the AI analysis; a failed download ends in the outer except
handle_photo_message_downloaded(t, ok) ==
  /\ tasks[t].pc = "download"
  /\ UNCHANGED << users, fsm, now, client, unreadable, pair, inputs, run, appended >>
  /\ LET u == tasks[t].user
         user_session == tasks[t].session
     IN  IF ~ok
         THEN /\ tasks' = Finish(t)
              /\ ev' = Event("handle_photo_message:failed", u, FALSE, PhotoApology, {},
                             FALSE, FALSE)
              /\ UNCHANGED conversations
         ELSE IF Truthy(Get(user_session, "in_survey_mode", False))
         THEN /\ tasks' = Finish(t)
              /\ ev' = Event("handle_photo_message:survey", u, FALSE, "", {}, FALSE, FALSE)
              /\ UNCHANGED conversations
         ELSE IF ~client
         THEN \* analyze_image_with_ai returns (user_session, apology) at once
              /\ tasks' = Finish(t)
              /\ conversations' =
                   add_conversation_message(
                     add_conversation_message(conversations, u, PhotoLogEntry, "user", now),
                     u, AiUnavailableImage, "bot", now)
              /\ ev' = Event("handle_photo_message:ai", u, FALSE, AiUnavailableImage, {},
                             FALSE, TRUE)
         ELSE /\ tasks' = [tasks EXCEPT ![t].pc = "ai_photo"]
              /\ ev' = [Event("handle_photo_message:ai", u, FALSE, "", {}, TRUE, TRUE)
                         EXCEPT !.result =
                           _prepare_conversation_context(conversations, user_session)]
              /\ UNCHANGED conversations

\* the vision completion returned or failed: merge loop, log entries, reply
handle_photo_message_ai_returned(t, ok) ==
  /\ tasks[t].pc = "ai_photo"
  /\ LET u == tasks[t].user
         user_session == tasks[t].session
         updated_session == SetKey(user_session, "language", DetectLanguage(tasks[t].text))
         ai_response == IF ok THEN AiReply ELSE AiTrouble
         keys == MergeKeys(user_session, updated_session)
     IN  /\ users' = MergeInto(users, u, updated_session, keys, now)
         /\ conversations' =
              add_conversation_message(
                add_conversation_message(conversations, u, PhotoLogEntry, "user", now),
                u, ai_response, "bot", now)
         /\ ev' = Event("handle_photo_message:merge", u, FALSE, ai_response, keys, FALSE, TRUE)
  /\ tasks' = Finish(t)
  /\ UNCHANGED << fsm, now, client, unreadable, pair, inputs, run, appended >>

help_command(u, m) ==
  /\ Route(u, m) = "help_command"
  /\ ev' = Event("help_command", u, TRUE, "help", {}, FALSE, FALSE)
  /\ run' = RunBreak(u)
  /\ inputs' = inputs + 1
  /\ now' = now + 1
  /\ UNCHANGED << users, conversations, fsm, tasks, client, unreadable, pair, appended >>

status_command(u, m) ==
  /\ Route(u, m) = "status_command"
  /\ users' = get_user_session_table(users, u, now)
  /\ ev' = Event("status_command", u, TRUE, "status", {}, FALSE, TRUE)
  /\ run' = RunBreak(u)
  /\ inputs' = inputs + 1
  /\ now' = now + 1
  /\ UNCHANGED << conversations, fsm, tasks, client, unreadable, pair, appended >>

\* ------------------------------------------------------ reachable profiles
\* the first n answers of a survey in which every text answer is "a" and the
\* style is modern
RECURSIVE WithAnswers(_, _)
WithAnswers(session, n) ==
  IF n = 0 THEN session
  ELSE IF n = 1
  THEN SetKey(SetKey(session, "preferred_style", "modern"),
              "style_description", StyleDescription("modern"))
  ELSE SetKey(WithAnswers(session, n - 1), SurveyFields[n], "a")
RECURSIVE AnswerLog(_)
AnswerLog(n) ==
  IF n = 0 THEN << >>
  ELSE Append(AnswerLog(n - 1),
              [message |-> IF n = 1 THEN "style chosen: " \o StyleName("modern") ELSE "a",
               sender |-> "user", timestamp |-> Time(0)])
\* user u after /test, the style button and 13 answers, waiting for question 15
ProfileAtLastQuestion(u) ==
  WithAnswers(SetKey(_create_default_user_session(u, 0), "in_survey_mode", True),
              NumQuestions - 1)
\* user u after a whole survey
ProfileCompleted(u) ==
  SetKey(WithAnswers(_create_default_user_session(u, 0), NumQuestions),
         "survey_completed", True)
LogCompleted ==
  Append(AnswerLog(NumQuestions),
         [message |-> Summary, sender |-> "bot", timestamp |-> Time(0)])

\* ------------------------------------------------------------------- Spec
InitCommon ==
  /\ tasks = [t \in TaskIds |-> IdleTask]
  /\ now = 1
  /\ unreadable = {}
  /\ ev = NoEvent
  /\ inputs = 0
  /\ run = [u \in UserIds |-> [ok |-> FALSE, given |-> << >>]]
  /\ appended = [u \in UserIds |-> << >>]
  /\ used = [test |-> 0, survey |-> 0, varied |-> 0]

\* The process starts with the two JSON files as earlier runs left them: no
\* file yet, or user 1 with a completed survey, or user 1 at the last question
\* (the FSM state of that run still in memory).
Init ==
  /\ InitCommon
  /\ pair = [before |-> Empty, after |-> Empty]
  /\ client \in BOOLEAN
  /\ \E start \in {"empty", "completed", "last_question"} :
       /\ users = CASE start = "empty" -> Empty
                    [] start = "completed" -> SetKey(Empty, UidStr(1), ProfileCompleted(1))
                    [] start = "last_question" ->
                         SetKey(Empty, UidStr(1), ProfileAtLastQuestion(1))
       /\ conversations = CASE start = "empty" -> Empty
                            [] start = "completed" -> SetKey(Empty, UidStr(1), LogCompleted)
                            [] start = "last_question" ->
                                 SetKey(Empty, UidStr(1), AnswerLog(NumQuestions - 1))
       /\ fsm = [u \in UserIds |->
                   IF start = "last_question" /\ u = 1 THEN NumQuestions ELSE 0]

\* the messages and callbacks the users of Spec send: user 1 all of them,
\* user 2 a dialogue text and a survey start
SpecTexts(u) ==
  IF u = 1
  THEN {"Yes ", "net", "NO", "maybe", "  ",
        "/start", "/test", "/survey", "/restart", "/help", "/status"}
  ELSE {"maybe", "/test"}
SpecMessages(u) ==
  {TextMessage(x) : x \in SpecTexts(u)}
    \cup (IF u = 1 THEN {PhotoMessage(g, None) : g \in {None, "g1"}} ELSE {})
SpecStyles(u) == IF u = 1 THEN {"rustic"} ELSE {}
More == inputs < MaxInputs

Next ==
  \/ \E u \in UserIds : \E m \in SpecMessages(u) :
       More /\ start_command(u, m) /\ UNCHANGED used
  \/ \E u \in UserIds : \E m \in SpecMessages(u) :
       More /\ start_design_survey(u, m) /\ UNCHANGED used
  \/ \E u \in UserIds : \E m \in SpecMessages(u) :
       More /\ start_survey_english(u, m) /\ UNCHANGED used
  \/ \E u \in UserIds : \E style \in SpecStyles(u) :
       More /\ handle_style_choice(u, style) /\ UNCHANGED used
  \/ \E u \in UserIds : \E m \in SpecMessages(u) :
       More /\ handle_question(u, m) /\ UNCHANGED used
  \/ \E u \in UserIds : \E m \in SpecMessages(u) :
       More /\ handle_personal_touch(u, m) /\ UNCHANGED used
  \/ \E u \in UserIds : \E m \in SpecMessages(u) :
       More /\ restart_command(u, m) /\ UNCHANGED used
  \/ \E u \in UserIds : \E m \in SpecMessages(u) :
       More /\ handle_text_message(u, m) /\ UNCHANGED used
  \/ \E u \in UserIds : \E m \in SpecMessages(u) :
       More /\ handle_photo_message(u, m) /\ UNCHANGED used
  \/ \E u \in UserIds : \E m \in SpecMessages(u) :
       More /\ help_command(u, m) /\ UNCHANGED used
  \/ \E u \in UserIds : \E m \in SpecMessages(u) :
       More /\ status_command(u, m) /\ UNCHANGED used
  \/ \E t \in TaskIds, ok \in BOOLEAN : start_command_sent(t, ok) /\ UNCHANGED used
  \/ \E t \in TaskIds, ok \in BOOLEAN : ask_question(t, ok) /\ UNCHANGED used
  \/ \E t \in TaskIds, ok \in BOOLEAN : complete_design_survey(t, ok) /\ UNCHANGED used
  \/ \E t \in TaskIds, ok \in BOOLEAN :
       handle_text_message_ai_returned(t, ok) /\ UNCHANGED used
  \/ \E t \in TaskIds, ok \in BOOLEAN :
       handle_photo_message_downloaded(t, ok) /\ UNCHANGED used
  \/ \E t \in TaskIds, ok \in BOOLEAN :
       handle_photo_message_ai_returned(t, ok) /\ UNCHANGED used

Spec == Init /\ [][Next]_vars

\* ------------------------------------------------------------- SpecSurvey
\* One user walks through the survey, one update at a time (the next update
\* arrives when the handler of the previous one has finished and its sends
\* went through).  Each entry command is sent at most once, at any moment;
\* the style buttons are pressed while question 1 is open.
AllIdle == \A t \in TaskIds : Idle(t)
Usual(x) == x \in {"modern", "a"}
VariedOk(x) == Usual(x) \/ used.varied < MaxVaried
Vary(x) == IF Usual(x) THEN used ELSE [used EXCEPT !.varied = @ + 1]
SurveyAnswers == {TextMessage("a"), TextMessage("b"), PhotoMessage(None, None)}

InitSurvey ==
  /\ InitCommon
  /\ pair = [before |-> Empty, after |-> Empty]
  /\ client = TRUE
  /\ users = Empty
  /\ conversations = Empty
  /\ fsm = [u \in UserIds |-> 0]

NextSurvey ==
  \/ \E m \in {TextMessage("/test")} :
       /\ AllIdle /\ used.test = 0
       /\ start_design_survey(1, m)
       /\ used' = [used EXCEPT !.test = 1]
  \/ \E m \in {TextMessage("/survey")} :
       /\ AllIdle /\ used.survey = 0
       /\ start_survey_english(1, m)
       /\ used' = [used EXCEPT !.survey = 1]
  \/ \E style \in DESIGN_STYLES :
       /\ AllIdle /\ fsm[1] = 1 /\ VariedOk(style)
       /\ handle_style_choice(1, style)
       /\ used' = Vary(style)
  \/ \E m \in SurveyAnswers :
       /\ AllIdle /\ VariedOk(m.text)
       /\ handle_question(1, m)
       /\ used' = Vary(m.text)
  \/ \E m \in SurveyAnswers :
       /\ AllIdle /\ VariedOk(m.text)
       /\ handle_personal_touch(1, m)
       /\ used' = Vary(m.text)
  \/ \E t \in TaskIds : ask_question(t, TRUE) /\ UNCHANGED used
  \/ \E t \in TaskIds : complete_design_survey(t, TRUE) /\ UNCHANGED used

SpecSurvey == InitSurvey /\ [][NextSurvey]_vars

\* ---------------------------------------------------------------- SpecLog
\* add_conversation_message called over and over: a dialogue of user 1 (user
\* message, bot reply, ...) with a few messages of user 2 in between
LogOf(conv, u) == IF UidStr(u) \in DOMAIN conv THEN conv[UidStr(u)] ELSE << >>

LogAppend(u) ==
  /\ Len(appended[u]) < (IF u = 1 THEN MaxAppends ELSE MaxOtherAppends)
  /\ LET n == Len(appended[u])
         sender == IF n % 2 = 0 THEN "user" ELSE "bot"
         message == IF n % 2 = 0 THEN "maybe" ELSE AiReply
     IN  /\ conversations' = add_conversation_message(conversations, u, message, sender, now)
         /\ appended' = [appended EXCEPT ![u] =
              Append(@, [message |-> message, sender |-> sender, timestamp |-> Time(now)])]
         /\ ev' = Event("add_conversation_message", u, FALSE, "", {}, FALSE, TRUE)
  /\ now' = now + 1
  /\ UNCHANGED << users, fsm, tasks, client, unreadable, pair, inputs, run, used >>

InitLog ==
  /\ InitCommon
  /\ pair = [before |-> Empty, after |-> Empty]
  /\ client = TRUE
  /\ users = Empty
  /\ conversations = Empty
  /\ fsm = [u \in UserIds |-> 0]

NextLog == \E u \in UserIds : LogAppend(u)

SpecLog == InitLog /\ [][NextLog]_vars

\* ------------------------------------------------------------ SpecDialogue
\* The dialogue of one user outside the survey: texts (product queries among
\* them) and photos, with the AI backend configured or not, handlers running
\* as concurrent tasks.
DialogueTexts ==
  {"maybe", "design advice", "sofa", "price", "where to buy sofa", "gde kupit divan",
   "gde kupit sofa"}
DialogueMessages ==
  {TextMessage(x) : x \in DialogueTexts} \cup {PhotoMessage(g, None) : g \in {None, "g1"}}

InitDialogue ==
  /\ InitCommon
  /\ pair = [before |-> Empty, after |-> Empty]
  /\ client \in BOOLEAN
  /\ fsm = [u \in UserIds |-> 0]
  /\ \E start \in {"empty", "completed"} :
       /\ users = IF start = "empty" THEN Empty
                  ELSE SetKey(Empty, UidStr(1), ProfileCompleted(1))
       /\ conversations = IF start = "empty" THEN Empty
                          ELSE SetKey(Empty, UidStr(1), LogCompleted)

NextDialogue ==
  \/ \E m \in DialogueMessages : More /\ handle_text_message(1, m) /\ UNCHANGED used
  \/ \E m \in DialogueMessages : More /\ handle_photo_message(1, m) /\ UNCHANGED used
  \/ \E t \in TaskIds, ok \in BOOLEAN :
       handle_text_message_ai_returned(t, ok) /\ UNCHANGED used
  \/ \E t \in TaskIds, ok \in BOOLEAN :
       handle_photo_message_downloaded(t, ok) /\ UNCHANGED used
  \/ \E t \in TaskIds, ok \in BOOLEAN :
       handle_photo_message_ai_returned(t, ok) /\ UNCHANGED used

SpecDialogue == InitDialogue /\ [][NextDialogue]_vars

\* --------------------------------------------------------------- SpecMerge
\* The merge loop of handle_text_message / handle_photo_message applied, once
\* or more, to a (before, after) pair of snapshots and a stored record: the
\* snapshot as it was read or an older or newer record, the returned snapshot
\* with any of a few keys changed, added, emptied or set to None.
MaxMerges == 2
MergeBase == _create_default_user_session(1, 0)
MergeChanges ==
  { <<"language", "english">>, <<"preferred_style", "rustic">>, <<"note", "">>,
    <<"room", None>>, <<"user_id", Int(2)>>, <<"updated_at", Time(9)>>,
    <<"wish", "x">> }
\* session.copy() with the changes c assigned
RECURSIVE WithChanges(_, _)
WithChanges(session, c) ==
  IF c = {} THEN session
  ELSE LET x == CHOOSE y \in c : TRUE
       IN  WithChanges(SetKey(session, x[1], x[2]), c \ {x})
\* the orders in which a set of keys can be gone through
Orders(keys) ==
  {f \in [1..Cardinality(keys) -> keys] : \A i, j \in 1..Cardinality(keys) : f[i] = f[j] => i = j}

InitMerge ==
  /\ InitCommon
  /\ client = TRUE
  /\ fsm = [u \in UserIds |-> 0]
  /\ conversations = Empty
  /\ \E before \in {MergeBase, SetKey(MergeBase, "preferred_style", "modern")} :
       /\ \E c \in SUBSET MergeChanges :
            pair = [before |-> before, after |-> WithChanges(before, c)]
       /\ \E stored \in {before, SetKey(SetKey(before, "language", "russian"), "room", "hall")} :
            users = SetKey(Empty, UidStr(1), stored)

\* the merge loop, the keys gone through in the given order
MergeApply(order) ==
  /\ inputs < MaxMerges
  /\ order \in Orders(MergeKeys(pair.before, pair.after))
  /\ users' = MergeInOrder(users, 1, pair.after, order, now)
  /\ ev' = Event("merge", 1, FALSE, "", MergeKeys(pair.before, pair.after), FALSE, TRUE)
  /\ inputs' = inputs + 1
  /\ now' = now + 1
  /\ UNCHANGED << conversations, fsm, tasks, client, unreadable, run, appended, pair, used >>

NextMerge == \E order \in Orders(MergeKeys(pair.before, pair.after)) : MergeApply(order)

SpecMerge == InitMerge /\ [][NextMerge]_vars

\* --------------------------------------------------------------- SpecFault
\* Turns of user 1 while the records of both users are in the two files and
\* the read of a file can fail (IOError or JSONDecodeError in
\* _load_users_data / _load_conversations_data) and succeed again.
FaultTexts == {"/start", "/restart", "/status", "Yes ", "maybe"}
FaultMessages == {TextMessage(x) : x \in FaultTexts}

InitFault ==
  /\ InitCommon
  /\ pair = [before |-> Empty, after |-> Empty]
  /\ client \in BOOLEAN
  /\ fsm = [u \in UserIds |-> 0]
  /\ users = SetKey(SetKey(Empty, UidStr(1), ProfileCompleted(1)),
                    UidStr(2), ProfileCompleted(2))
  /\ conversations = SetKey(SetKey(Empty, UidStr(1), LogCompleted), UidStr(2), LogCompleted)

\* the next open() or json.load() of the file f (f:w: the open for writing)
\* fails, or works again
FileFault(f) ==
  /\ unreadable' = IF f \in unreadable THEN unreadable \ {f} ELSE unreadable \cup {f}
  /\ UNCHANGED << users, conversations, fsm, tasks, now, client, ev, inputs, run, appended,
                  pair, used >>

NextFault ==
  \/ \E f \in {"users", "conversations", "users:w"} : FileFault(f)
  \/ \E m \in FaultMessages : More /\ start_command(1, m) /\ UNCHANGED used
  \/ \E t \in TaskIds, ok \in BOOLEAN : start_command_sent(t, ok) /\ UNCHANGED used
  \/ \E m \in FaultMessages : More /\ restart_command(1, m) /\ UNCHANGED used
  \/ \E m \in FaultMessages : More /\ status_command(1, m) /\ UNCHANGED used
  \/ \E m \in FaultMessages : More /\ handle_text_message(1, m) /\ UNCHANGED used
  \/ \E t \in TaskIds, ok \in BOOLEAN :
       handle_text_message_ai_returned(t, ok) /\ UNCHANGED used

SpecFault == InitFault /\ [][NextFault]_vars

\* ------------------------------------------------------------- SpecConfirm
\* The confirmation protocol of one user with stored data: /restart and the
\* answers to its question, while the writes to users.json can fail.
ConfirmTexts == {"/restart", "Yes ", "NO", "maybe"}
ConfirmMessages == {TextMessage(x) : x \in ConfirmTexts}

InitConfirm ==
  /\ InitCommon
  /\ pair = [before |-> Empty, after |-> Empty]
  /\ client \in BOOLEAN
  /\ fsm = [u \in UserIds |-> 0]
  /\ users = SetKey(Empty, UidStr(1), ProfileCompleted(1))
  /\ conversations = SetKey(Empty, UidStr(1), LogCompleted)

\* one update more than More: a text, /restart and the answer
MoreConfirm == inputs < MaxInputs + 1

NextConfirm ==
  \/ FileFault("users:w")
  \/ \E m \in ConfirmMessages : MoreConfirm /\ restart_command(1, m) /\ UNCHANGED used
  \/ \E m \in ConfirmMessages : MoreConfirm /\ handle_text_message(1, m) /\ UNCHANGED used
  \/ \E t \in TaskIds, ok \in BOOLEAN :
       handle_text_message_ai_returned(t, ok) /\ UNCHANGED used

SpecConfirm == InitConfirm /\ [][NextConfirm]_vars

\* --------------------------------------------------------------- SpecReset
\* The confirmation protocol of one user with stored data while the writes
\* to conversations.json can fail.
NextReset ==
  \/ FileFault("conversations:w")
  \/ \E m \in ConfirmMessages : More /\ restart_command(1, m) /\ UNCHANGED used
  \/ \E m \in ConfirmMessages : More /\ handle_text_message(1, m) /\ UNCHANGED used
  \/ \E t \in TaskIds, ok \in BOOLEAN :
       handle_text_message_ai_returned(t, ok) /\ UNCHANGED used

SpecReset == InitConfirm /\ [][NextReset]_vars

\* ------------------------------------------------------------- SpecHistory
\* Reads of the conversation log: get_conversation_history with every limit
\* from 0 on, and _prepare_conversation_context, over stored logs of every
\* length up to MaxHistory (user 1; user 2 has no log), while the read of
\* conversations.json can fail.
MaxHistory == 7
MaxLimit == 8
\* a stored log of n entries, oldest first, user and bot in turn
StoredLog(n) ==
  [i \in 1..n |-> [message |-> "m" \o ToString(i),
                   sender |-> IF i % 2 = 1 THEN "user" ELSE "bot",
                   timestamp |-> Time(i)]]
\* the sessions the context is built for: one without user_id, and the
\* records of the two users
HistorySessions ==
  {Empty} \cup {_create_default_user_session(u, 0) : u \in UserIds}

InitHistory ==
  /\ InitCommon
  /\ pair = [before |-> Empty, after |-> Empty]
  /\ client = TRUE
  /\ users = Empty
  /\ fsm = [u \in UserIds |-> 0]
  /\ conversations \in
       {Empty} \cup {SetKey(Empty, UidStr(1), StoredLog(n)) : n \in 0..MaxHistory}

HistoryRead(u, limit) ==
  /\ ev' = [Event("get_conversation_history", u, FALSE, "", {}, FALSE, TRUE)
             EXCEPT !.arg = limit,
                    !.result = get_conversation_history(conversations, u, limit)]
  /\ UNCHANGED << users, conversations, fsm, tasks, now, client, unreadable, inputs, run,
                  appended, pair, used >>

ContextBuilt(user_session) ==
  /\ ev' = [Event("_prepare_conversation_context", 0, FALSE, "", {}, FALSE, TRUE)
             EXCEPT !.text = Get(user_session, "user_id", None),
                    !.result = _prepare_conversation_context(conversations, user_session)]
  /\ UNCHANGED << users, conversations, fsm, tasks, now, client, unreadable, inputs, run,
                  appended, pair, used >>

NextHistory ==
  \/ FileFault("conversations")
  \/ \E u \in UserIds, limit \in 0..MaxLimit : HistoryRead(u, limit)
  \/ \E user_session \in HistorySessions : ContextBuilt(user_session)

SpecHistory == InitHistory /\ [][NextHistory]_vars

\* ------------------------------------------------------------- SpecContext
\* Dialogue turns of user 1 (texts and photos, the backend configured) from
\* an empty store or the store of a completed survey, and the calls of
\* test_context_memory: the context for a session and for an empty session.
ContextTexts == {"maybe", "design advice", "where to buy sofa"}
ContextMessages_in ==
  {TextMessage(x) : x \in ContextTexts} \cup {PhotoMessage(None, None)}

InitContext ==
  /\ InitDialogue
  /\ client = TRUE

NextContext ==
  \/ \E m \in ContextMessages_in : More /\ handle_text_message(1, m) /\ UNCHANGED used
  \/ \E m \in ContextMessages_in : More /\ handle_photo_message(1, m) /\ UNCHANGED used
  \/ \E t \in TaskIds, ok \in BOOLEAN :
       handle_text_message_ai_returned(t, ok) /\ UNCHANGED used
  \/ \E t \in TaskIds, ok \in BOOLEAN :
       handle_photo_message_downloaded(t, ok) /\ UNCHANGED used
  \/ \E t \in TaskIds, ok \in BOOLEAN :
       handle_photo_message_ai_returned(t, ok) /\ UNCHANGED used
  \/ \E user_session \in HistorySessions : ContextBuilt(user_session)

SpecContext == InitContext /\ [][NextContext]_vars

\* -------------------------------------------------------------- SpecLength
\* The lengths (len()) of the texts the reply paths hand to message.answer,
\* as functions of the lengths of what they are built from: the completion
\* of the AI model, the product name taken from the user's text, the
\* answers of the survey.
MAX_REPLY == 3000
\* len of the truncation marker, two newlines, "... " and the two words in
\* parentheses
MARKER_LEN == 21
\* if len(response_text) > 3000: response_text[:3000] + marker
Truncated(n) == IF n > MAX_REPLY THEN MAX_REPLY + MARKER_LEN ELSE n
\* len of _get_survey_suggestion(language)
SurveySuggestionLen(language) == IF language = "russian" THEN 148 ELSE 123
\* analyze_text_with_ai: the completion as _get_ai_response returns it, then
\* two newlines and the survey suggestion when it is due
TextReplyLen(completion, suggest, language) ==
  IF suggest THEN Truncated(completion) + 2 + SurveySuggestionLen(language)
  ELSE Truncated(completion)
\* handle_photo_message: the completion as _get_ai_response returns it, cut
\* once more by the handler
PhotoReplyLen(completion) == Truncated(Truncated(completion))
\* format_product_response: the fixed text of the language, and the product
\* name in the headline and in each of the five search URLs
ProductReplyLen(product_name, language) ==
  (IF language = "russian" THEN 583 ELSE 545) + 6 * product_name
\* the summary of complete_design_survey: the fixed text, the style and the
\* fourteen text answers as they were stored
SummaryLen(style, answer) == 712 + style + 14 * answer

\* completions of MAX_REPLY - LenSpread .. MAX_REPLY + LenSpread characters
LenSpread == 20
CompletionLens == (MAX_REPLY - LenSpread)..(MAX_REPLY + LenSpread)
\* texts of the user, up to the longest message the platform delivers
MaxInbound == 4096
InboundLens == {1, 3, MaxInbound \div 8, MaxInbound \div 2, MaxInbound}

InitLength ==
  /\ InitCommon
  /\ pair = [before |-> Empty, after |-> Empty]
  /\ client = TRUE
  /\ users = Empty
  /\ conversations = Empty
  /\ fsm = [u \in UserIds |-> 0]

\* the event of a text of that length handed to message.answer
Sent(h, input, language, length) ==
  [Event(h, 1, FALSE, "", {}, FALSE, FALSE)
   EXCEPT !.arg = input, !.text = language, !.len = length]

TextReplySent(completion, suggest, language) ==
  /\ ev' = Sent("handle_text_message:answer", completion,
                 IF suggest THEN language ELSE None,
                 TextReplyLen(completion, suggest, language))
  /\ UNCHANGED << users, conversations, fsm, tasks, now, client, unreadable, inputs, run,
                  appended, pair, used >>
PhotoReplySent(completion) ==
  /\ ev' = Sent("handle_photo_message:answer", completion, None,
                 PhotoReplyLen(completion))
  /\ UNCHANGED << users, conversations, fsm, tasks, now, client, unreadable, inputs, run,
                  appended, pair, used >>
ProductReplySent(product_name, language) ==
  /\ ev' = Sent("handle_text_message:product_answer", product_name, language,
                 ProductReplyLen(product_name, language))
  /\ UNCHANGED << users, conversations, fsm, tasks, now, client, unreadable, inputs, run,
                  appended, pair, used >>
SummarySent(answer) ==
  /\ ev' = Sent("complete_design_survey:answer", answer, None, SummaryLen(6, answer))
  /\ UNCHANGED << users, conversations, fsm, tasks, now, client, unreadable, inputs, run,
                  appended, pair, used >>

NextLength ==
  \/ \E completion \in CompletionLens, suggest \in BOOLEAN,
         language \in {"russian", "english"} :
       TextReplySent(completion, suggest, language)
  \/ \E completion \in CompletionLens : PhotoReplySent(completion)
  \/ \E product_name \in InboundLens, language \in {"russian", "english"} :
       ProductReplySent(product_name, language)
  \/ \E answer \in InboundLens : SummarySent(answer)

SpecLength == InitLength /\ [][NextLength]_vars

\* ================================================================= claims
Has(tbl, u) == UidStr(u) \in DOMAIN tbl
\* the profile get_user_session would hand out in this state
Profile(tbl, u, t) == IF Has(tbl, u) THEN tbl[UidStr(u)] ELSE _create_default_user_session(u, t)
\* the user message of the last (user message, bot reply) pair of the log
Said(conv, u) ==
  LET l == LogOf(conv, u) IN IF Len(l) >= 2 THEN l[Len(l) - 1].message ELSE None
IsPrefix(a, b) == Len(a) <= Len(b) /\ \A i \in 1..Len(a) : a[i] = b[i]
ConfirmationBranches ==
  {"handle_restart_confirmation:yes", "handle_restart_confirmation:yes_failed",
   "handle_restart_confirmation:no", "handle_restart_confirmation:other"}
TextPieces ==
  {"handle_text_message:empty", "handle_text_message:survey", "handle_text_message:ai",
   "handle_text_message:product"} \cup ConfirmationBranches
PhotoPieces ==
  {"handle_photo_message:group_seen", "handle_photo_message:group",
   "handle_photo_message:download"}
\* the fifteen answer fields in the order of the questions
AnswerFields ==
  << "preferred_style", "color_preference", "material_preference", "space_type",
     "room_preference", "layout_style", "functionality_preference",
     "lighting_preference", "storage_preference", "budget_range", "timeline",
     "project_priority", "lifestyle", "family_needs", "personal_touch" >>

\* ---- C1 (SpecSurvey)
\* C1: once a survey start was followed by a style selection and 14 text
\* answers in order, with nothing else in between, the profile has
\* survey_completed = True, in_survey_mode = False, and each of the fifteen
\* answer fields holds the value supplied at its step.
SurveyCompletionCorrect ==
  \A u \in UserIds :
    (run[u].ok /\ Len(run[u].given) = 15) =>
      /\ Has(users, u)
      /\ Get(users[UidStr(u)], "survey_completed", None) = True
      /\ Get(users[UidStr(u)], "in_survey_mode", None) = False
      /\ \A k \in 1..15 : Get(users[UidStr(u)], AnswerFields[k], None) = run[u].given[k]

\* a second survey, started over an earlier one, was answered to the end with
\* an answer that differs from the earlier ones
SurveyCompletedTwice ==
  /\ run[1].ok /\ Len(run[1].given) = 15
  /\ used.test = 1 /\ used.survey = 1
  /\ \E k \in 1..15 : run[1].given[k] \in {"b", "classic"}
  /\ fsm[1] = 0
  /\ Get(Profile(users, 1, 0), "survey_completed", None) = True

\* ---- C2 (SpecSurvey)
\* C2: in_survey_mode and survey_completed are never both true: a profile is
\* in exactly one of the situations no survey state, in survey, completed.
LifecycleExclusive ==
  \A u \in UserIds :
    Has(users, u) =>
      ~ (/\ Get(users[UidStr(u)], "in_survey_mode", False) = True
         /\ Get(users[UidStr(u)], "survey_completed", False) = True)

\* ---- C3 (Spec)
\* C3 as stated: after an affirmative answer was handled while
\* pending_confirmation was set, the profile holds only fresh default fields
\* with the same user_id and the conversation log of the user is empty.
ResetLeavesEmptyLog ==
  \A u \in UserIds :
    (ev.h = "handle_restart_confirmation:yes" /\ ev.user = u) =>
      /\ Has(users, u)
      /\ Get(users[UidStr(u)], "user_id", None) = Int(u)
      /\ Get(users[UidStr(u)], "survey_completed", None) = False
      /\ \A k \in 1..15 : AnswerFields[k] \notin DOMAIN users[UidStr(u)]
      /\ LogOf(conversations, u) = << >>

\* C3, amended: after an affirmative answer was handled while
\* pending_confirmation was set, the profile is the fresh record of
\* reset_user_data (the default fields with the same user_id, new timestamps,
\* and pending_confirmation None; no answer, flag or AI-added field is left)
\* and the log of the user holds one entry, the bot's reset notice.
ResetResult ==
  \A u \in UserIds :
    (ev.h = "handle_restart_confirmation:yes" /\ ev.user = u) =>
      /\ Has(users, u)
      /\ DOMAIN users[UidStr(u)] =
           {"user_id", "created_at", "updated_at", "language", "survey_completed",
            "preferences", "in_survey_mode", "start_option_chosen", "pending_confirmation"}
      /\ users[UidStr(u)]["user_id"] = Int(u)
      /\ users[UidStr(u)]["created_at"] = Time(now - 1)
      /\ users[UidStr(u)]["updated_at"] = Time(now - 1)
      /\ users[UidStr(u)]["language"] = "auto"
      /\ users[UidStr(u)]["survey_completed"] = False
      /\ users[UidStr(u)]["preferences"] = EmptyDict
      /\ users[UidStr(u)]["in_survey_mode"] = False
      /\ users[UidStr(u)]["start_option_chosen"] = None
      /\ users[UidStr(u)]["pending_confirmation"] = None
      /\ LogOf(conversations, u) =
           << [message |-> RestartMessage, sender |-> "bot", timestamp |-> Time(now - 1)] >>

\* user 1, who had completed the survey, answered "Yes " to the confirmation
ResetConfirmed ==
  /\ ev.h = "handle_restart_confirmation:yes" /\ ev.user = 1
  /\ ev.reply = RestartMessage
  /\ inputs = 2
  /\ Has(users, 1)

\* ---- C4 (Spec)
\* C4 as stated: after a negative answer was handled while
\* pending_confirmation was set, pending_confirmation is cleared and every
\* other field of the profile is what it was before the answer.
CancelKeepsEveryOtherField ==
  [][\A u \in UserIds :
       (ev'.h = "handle_restart_confirmation:no" /\ ev'.user = u /\ Has(users, u)) =>
         /\ Has(users', u)
         /\ Get(users'[UidStr(u)], "pending_confirmation", "") = None
         /\ \A k \in DOMAIN users[UidStr(u)] \ {"pending_confirmation"} :
              Get(users'[UidStr(u)], k, "") = users[UidStr(u)][k]]_vars

\* C4, amended: a negative answer, in any letter case, given while
\* pending_confirmation is set is taken as the cancellation; it sets
\* pending_confirmation to None, refreshes updated_at, and leaves every other
\* field of the profile as it was.
CancelFrame ==
  [][\A u \in UserIds :
       (ev'.user = u /\ ev'.recv /\ Has(users, u)) =>
         /\ ev'.h = "handle_restart_confirmation:no" =>
              /\ Has(users', u)
              /\ DOMAIN users'[UidStr(u)] = DOMAIN users[UidStr(u)]
              /\ Get(users[UidStr(u)], "pending_confirmation", None) = "restart"
              /\ Get(users'[UidStr(u)], "pending_confirmation", "") = None
              /\ Get(users'[UidStr(u)], "updated_at", "") = Time(now)
              /\ \A k \in DOMAIN users[UidStr(u)] \ {"pending_confirmation", "updated_at"} :
                   Get(users'[UidStr(u)], k, "") = users[UidStr(u)][k]
         /\ ev'.h \in ConfirmationBranches \ {"handle_restart_confirmation:no"} =>
              Strip(Lower(Said(conversations', u))) \notin NEGATIVE]_vars

\* user 1, who had completed the survey, answered "NO" to the confirmation
ResetCancelled ==
  /\ ev.h = "handle_restart_confirmation:no" /\ ev.user = 1
  /\ Said(conversations, 1) = "NO"
  /\ Get(Profile(users, 1, 0), "pending_confirmation", "") = None
  /\ Get(Profile(users, 1, 0), "survey_completed", "") = True
  /\ Get(Profile(users, 1, 0), "personal_touch", "") = "a"

\* ---- C5 (Spec)
\* no name, age, interests, preferences or completed survey in the profile
NoStoredData(session) ==
  /\ Get(session, "name", None) \in {None, ""}
  /\ Get(session, "age", None) \in {None, "", Int(0)}
  /\ Get(session, "interests", None) \in {None, "", EmptyDict}
  /\ Get(session, "preferences", None) \in {None, "", EmptyDict}
  /\ Get(session, "survey_completed", False) \in {None, False}

\* C5: a reset request of a user without stored data is answered "nothing to
\* reset", sets no pending_confirmation and leaves profile and log as they
\* were; and a text that arrives while no confirmation is pending, "yes"
\* included, is not taken as a confirmation: it resets nothing.
NothingToResetRefused ==
  [][\A u \in UserIds :
       (ev'.user = u /\ ev'.recv) =>
         /\ (ev'.h = "restart_command" /\ NoStoredData(Profile(users, u, now))) =>
              /\ ev'.reply = NothingToReset
              /\ Has(users', u)
              /\ users'[UidStr(u)] = Profile(users, u, now)
              /\ Get(users'[UidStr(u)], "pending_confirmation", None) # "restart"
              /\ conversations' = conversations
         /\ (ev'.h \in TextPieces
               /\ Get(Profile(users, u, now), "pending_confirmation", None) # "restart") =>
              /\ ev'.h \notin ConfirmationBranches
              /\ "*" \notin ev'.wrote
              /\ Has(users, u) =>
                   /\ Has(users', u)
                   /\ \A k \in DOMAIN users[UidStr(u)] \ {"language", "updated_at"} :
                        Get(users'[UidStr(u)], k, "") = users[UidStr(u)][k]
              /\ IsPrefix(LogOf(conversations, u), LogOf(conversations', u))]_vars

\* user 1, without a completed survey, asked for a reset and was refused
ResetRefused ==
  /\ ev.h = "restart_command" /\ ev.user = 1
  /\ ev.reply = NothingToReset
  /\ Has(users, 1)
  /\ "pending_confirmation" \notin DOMAIN users[UidStr(1)]

\* ---- C6 (SpecLog)
\* C6: after any sequence of appends for a user the log of that user holds at
\* most 50 entries, and they are the most recent min(n, 50) appended messages
\* in the order they were appended.
LogKeepsLast50 ==
  \A u \in UserIds :
    LET log == LogOf(conversations, u)
        n == Len(appended[u])
        kept == IF n < 50 THEN n ELSE 50
    IN  /\ Len(log) = kept
        /\ \A i \in 1..kept : log[i] = appended[u][n - kept + i]

\* 55 messages were appended for user 1: the log starts at the sixth of them
Appended55 ==
  /\ Len(appended[1]) = 55
  /\ Len(LogOf(conversations, 1)) = 50
  /\ LogOf(conversations, 1)[1] = appended[1][6]
  /\ LogOf(conversations, 1)[50] = appended[1][55]

\* ---- C7 (Spec)
\* C7: no update is lost.  In every step, whatever handlers are suspended, a
\* record or log once saved stays in its table; a profile key changes only
\* when the store call of this step writes that key (or replaces the record
\* in a reset); the records and logs of the other users stay as they are; and
\* the log of the acting user keeps every earlier entry unless it is reset.
NoLostUpdate ==
  [][\A v \in UserIds :
       /\ Has(users, v) => Has(users', v)
       /\ Has(conversations, v) => Has(conversations', v)
       /\ (v # ev'.user /\ Has(users, v)) => users'[UidStr(v)] = users[UidStr(v)]
       /\ v # ev'.user => LogOf(conversations', v) = LogOf(conversations, v)
       /\ (v = ev'.user /\ Has(users, v) /\ Has(users', v) /\ "*" \notin ev'.wrote) =>
            \A k \in DOMAIN users[UidStr(v)] \ (ev'.wrote \cup {"updated_at"}) :
              Get(users'[UidStr(v)], k, "") = users[UidStr(v)][k]
       /\ (v = ev'.user /\ "*" \notin ev'.wrote) =>
            IsPrefix(LogOf(conversations, v), LogOf(conversations', v))]_vars

\* user 1 wrote a profile field while a handler of user 2 was suspended and
\* the record of user 2 was in the table
WriteBesideSuspendedHandler ==
  /\ ev.user = 1 /\ ev.wrote # {}
  /\ Has(users, 2)
  /\ \E t \in TaskIds : tasks[t].pc # "idle" /\ tasks[t].user = 2

\* ---- C8 (Spec)
\* the awaits after which a handler still writes to the store
WritesPending == {"welcome_send", "download", "ai_text", "ai_photo"}
\* C8: turns of one user do not interleave: while a handler that has read the
\* user's profile is suspended with store writes still to come, no other
\* handler piece of that user reads or writes the store.
TurnsDoNotInterleave ==
  [][\A u \in UserIds :
       (ev'.user = u /\ ev'.store) =>
         ~ \E t \in TaskIds :
             /\ tasks[t].user = u
             /\ tasks[t].pc \in WritesPending
             /\ tasks'[t] = tasks[t]]_vars

\* ---- C9 (Spec)
\* C9: while in_survey_mode is true, a text or photo of that user that
\* reaches the dialogue or photo handler starts no AI completion, writes no
\* profile field and is not answered.
SurveyModeBlocksDialogue ==
  [][\A u \in UserIds :
       (/\ ev'.user = u /\ ev'.recv
        /\ ev'.h \in TextPieces \cup PhotoPieces
        /\ Truthy(Get(Profile(users, u, now), "in_survey_mode", False))) =>
         /\ ~ ev'.ai
         /\ ev'.wrote = {}
         /\ ev'.reply = ""]_vars

\* ---- C10 (Spec)
\* C10: when pending_confirmation is set and in_survey_mode is false, the
\* next text or photo of that user is handled by the confirmation protocol
\* alone: it writes a profile field only in the confirm or cancel branch, and
\* no handler that read such a profile goes on to an AI completion.
PendingRoutesToConfirmation ==
  [][/\ \A u \in UserIds :
          (/\ ev'.user = u /\ ev'.recv
           /\ ev'.h \in TextPieces \cup PhotoPieces
           /\ Get(Profile(users, u, now), "pending_confirmation", None) = "restart"
           /\ ~ Truthy(Get(Profile(users, u, now), "in_survey_mode", False))) =>
            (ev'.wrote # {} =>
               ev'.h \in {"handle_restart_confirmation:yes", "handle_restart_confirmation:no"})
     /\ \A t \in TaskIds :
          tasks'[t].pc \in {"ai_text", "ai_photo"} =>
            ~ (/\ Get(tasks'[t].session, "pending_confirmation", None) = "restart"
               /\ ~ Truthy(Get(tasks'[t].session, "in_survey_mode", False)))]_vars

\* ---- C11 (SpecDialogue)
\* the category keywords of both languages
AnyCategoryKeyword == CategoryKeywords("russian") \cup CategoryKeywords("english")
\* C11: a text that contains a category keyword and a purchase-intent
\* marker and reaches the dialogue path is answered with the formatted list
\* of store links for the detected language, and no AI completion is started
\* in that turn, whether the AI backend is configured or not.
ProductQueryShortCircuits ==
  \A u \in UserIds :
    (/\ ev.user = u /\ ev.recv
     /\ ev.h \in {"handle_text_message:ai", "handle_text_message:product"}
     /\ PartsOf(Lower(Strip(ev.text))) \cap AnyCategoryKeyword # {}
     /\ PartsOf(Lower(Strip(ev.text))) \cap SPECIFIC_INDICATORS # {}) =>
      /\ ~ ev.ai
      /\ ev.reply = format_product_response(_extract_product_name(Strip(ev.text)),
                                            DetectLanguage(Strip(ev.text)))

\* ---- C12 (SpecMerge)
\* C12 as stated: applying the merge of the same (before, after) pair once
\* more leaves the stored profile exactly as the first application left it.
MergeTwiceSameState ==
  [][(ev'.h = "merge" /\ inputs >= 1) => users' = users]_vars

\* C12, amended: applying the merge of the same (before, after) pair once
\* more leaves every key of the stored profile as the first application left
\* it, except updated_at, which takes the time of the later application; and
\* the result of an application does not depend on the order of the keys.
MergeIdempotent ==
  [][ev'.h = "merge" =>
       /\ inputs >= 1 =>
            /\ DOMAIN users'[UidStr(1)] = DOMAIN users[UidStr(1)]
            /\ \A k \in DOMAIN users[UidStr(1)] \ {"updated_at"} :
                 users'[UidStr(1)][k] = users[UidStr(1)][k]
            /\ ev'.wrote # {} => Get(users'[UidStr(1)], "updated_at", "") = Time(now)
       /\ \A order \in Orders(ev'.wrote) :
            MergeInOrder(users, 1, pair.after, order, now) = users']_vars

\* the merge of a pair with two keys to write was applied twice
MergedTwice ==
  /\ ev.h = "merge" /\ inputs = 2
  /\ Cardinality(ev.wrote) >= 2
  /\ Get(users[UidStr(1)], "wish", "") = "x"
  /\ Get(users[UidStr(1)], "updated_at", "") = Time(2)

\* ---- C13 (SpecMerge)
\* C13: the merge writes a key exactly when its value in the returned
\* snapshot differs from the one in the snapshot read before the call and is
\* neither None nor empty, and the key is not user_id, created_at or
\* updated_at; a written key takes the returned value; updated_at only ever
\* takes the time of the write; every other key of the stored record stays
\* as it is and no other key appears.
MergeFrame ==
  [][ev'.h = "merge" =>
       \A k \in DOMAIN users[UidStr(1)] \cup DOMAIN users'[UidStr(1)] \cup DOMAIN pair.after :
         IF /\ k \notin {"user_id", "created_at", "updated_at"}
            /\ k \in DOMAIN pair.after
            /\ pair.after[k] # Get(pair.before, k, None)
            /\ pair.after[k] \notin {None, ""}
         THEN Get(users'[UidStr(1)], k, None) = pair.after[k]
         ELSE IF k = "updated_at"
         THEN Get(users'[UidStr(1)], k, "") \in {users[UidStr(1)][k], Time(now)}
         ELSE /\ (k \in DOMAIN users[UidStr(1)]) = (k \in DOMAIN users'[UidStr(1)])
              /\ k \in DOMAIN users[UidStr(1)] =>
                   Get(users'[UidStr(1)], k, "") = users[UidStr(1)][k]]_vars

\* a pair whose returned snapshot changes user_id and updated_at, empties a
\* key, adds a None and a real value was merged into a record that differs
\* from the snapshot: only the real value was written
MergedSelectively ==
  /\ ev.h = "merge" /\ ev.wrote = {"wish"}
  /\ pair.after["user_id"] = Int(2) /\ pair.after["updated_at"] = Time(9)
  /\ "note" \in DOMAIN pair.after /\ "room" \in DOMAIN pair.after
  /\ users[UidStr(1)]["user_id"] = Int(1)
  /\ users[UidStr(1)]["language"] = "russian"
  /\ users[UidStr(1)]["room"] = "hall"
  /\ users[UidStr(1)]["wish"] = "x"
  /\ "note" \notin DOMAIN users[UidStr(1)]

MediaGroupFirstAnalysed ==
  [][\A u \in UserIds :
       (ev'.user = u /\ ev'.recv
          /\ ev'.h \in {"handle_photo_message:group", "handle_photo_message:group_seen"}) =>
         /\ Truthy(Get(Profile(users, u, now), "media_group_g1", None))
         /\ ev'.reply = MultiplePhotosText]_vars

\* ---- C16 (SpecDialogue)
\* the two entries a finished dialogue turn adds to the log of u
TurnLogged(u, said, reply) ==
  LogOf(conversations', u) =
    LastN(LogOf(conversations, u)
            \o << [message |-> said, sender |-> "user", timestamp |-> Time(now)],
                  [message |-> reply, sender |-> "bot", timestamp |-> Time(now)] >>,
          LOG_CAP)
\* the fallback text of a failed completion, alone or followed by the survey
\* suggestion
TroubleReplies ==
  {AiTrouble} \cup {AiTrouble \o " + survey suggestion in " \o l : l \in {"russian", "english"}}
\* C16: when the completion of a text or photo turn fails, or no AI client
\* is configured, the handler still finishes: the reply is the fallback text
\* of that case (for a failed text completion possibly followed by the
\* survey suggestion), and the user turn and this reply are the two entries
\* added to the user's log.
AiFailureDegrades ==
  [][/\ \A t \in TaskIds :
          /\ handle_text_message_ai_returned(t, FALSE) =>
               /\ tasks'[t].pc = "idle"
               /\ ev'.reply \in TroubleReplies
               /\ TurnLogged(tasks[t].user, tasks[t].text, ev'.reply)
          /\ handle_photo_message_ai_returned(t, FALSE) =>
               /\ tasks'[t].pc = "idle"
               /\ ev'.reply = AiTrouble
               /\ TurnLogged(tasks[t].user, PhotoLogEntry, AiTrouble)
          /\ (tasks[t].pc = "download" /\ tasks'[t] # tasks[t]
                /\ ev'.h = "handle_photo_message:ai" /\ ~client) =>
               /\ tasks'[t].pc = "idle"
               /\ ev'.reply = AiUnavailableImage
               /\ TurnLogged(tasks[t].user, PhotoLogEntry, AiUnavailableImage)
     /\ (ev'.recv /\ ev'.h = "handle_text_message:ai" /\ ~client) =>
          /\ tasks' = tasks
          /\ ev'.reply = AiUnavailableText
          /\ TurnLogged(ev'.user, Strip(ev'.text), AiUnavailableText)]_vars

\* a text turn whose completion failed has ended: the fallback with the
\* survey suggestion was sent and is the last entry of the log, after the
\* user's text
FailedCompletionAnswered ==
  /\ client
  /\ ev.h = "handle_text_message:merge"
  /\ ev.reply = AiTrouble \o " + survey suggestion in english"
  /\ \A t \in TaskIds : Idle(t)
  /\ LET l == LogOf(conversations, 1)
     IN  /\ Len(l) >= 2
         /\ l[Len(l)].message = ev.reply /\ l[Len(l)].sender = "bot"
         /\ l[Len(l) - 1].message = "design advice" /\ l[Len(l) - 1].sender = "user"

\* ---- C17 (Spec)
\* C17: when a send of a survey turn fails after the handler has written
\* (the except branch answers with its apology), and no other handler of the user
\* is under way, the user's stored profile and log are the ones of the
\* moment the update of this turn arrived.
FaultRestoresState ==
  [][\A t \in TaskIds :
       (/\ tasks[t].pc # "idle" /\ tasks'[t].pc = "idle"
        /\ ev'.reply \in {SurveyApology, CompletionApology}
        /\ \A s \in TaskIds \ {t} : tasks[s].user # tasks[t].user) =>
         LET u == UidStr(tasks[t].user)
         IN  /\ (IF u \in DOMAIN users' THEN users'[u] ELSE Empty) = tasks[t].before.profile
             /\ (IF u \in DOMAIN conversations' THEN conversations'[u] ELSE << >>)
                  = tasks[t].before.log]_vars

\* ---- C18 (SpecFault)
\* C18: no step of a turn of user 1, be it a confirmed reset or a turn in
\* which the read of a file fails, changes the stored record or the stored
\* log of user 2.
OtherUserUntouched ==
  [][/\ Has(users, 2) = Has(users', 2)
     /\ (Has(users, 2) => users'[UidStr(2)] = users[UidStr(2)])
     /\ Has(conversations, 2) = Has(conversations', 2)
     /\ (Has(conversations, 2) => conversations'[UidStr(2)] = conversations[UidStr(2)])]_vars

\* ---- C19 (Spec)
\* C19: a text that is empty after strip() is ignored whatever the state of
\* its sender, a waiting survey question included: the handler that receives
\* it sends nothing, writes no profile field and appends nothing to the log.
BlankTextIgnored ==
  [][(ev'.recv /\ ev'.text # None /\ Strip(ev'.text) = "" /\ inputs' = inputs + 1) =>
       /\ ev'.reply = ""
       /\ ev'.wrote = {}
       /\ conversations' = conversations]_vars

\* ---- C20 (SpecSurvey)
SurveyStarts == {"start_design_survey", "start_survey_english"}
\* C20: whatever the profile and the FSM state, a survey start stores
\* in_survey_mode = True, clears the FSM state and goes on to ask question 1
\* (whose keyboard holds the 6 styles); once that prompt is sent the FSM
\* waits for question 1.  A press on a style button stores that style as
\* preferred_style and goes on to ask question 2; once that prompt is sent
\* the FSM waits for question 2.
SurveyStartThenStyle ==
  [][/\ Cardinality(DESIGN_STYLES) = 6
     /\ \A u \in UserIds :
          (ev'.recv /\ ev'.user = u /\ ev'.h \in SurveyStarts /\ inputs' = inputs + 1) =>
            /\ Get(Profile(users', u, now), "in_survey_mode", None) = True
            /\ fsm'[u] = 0
            /\ \E t \in TaskIds :
                 /\ Idle(t) /\ tasks'[t].pc = "ask" /\ tasks'[t].user = u /\ tasks'[t].k = 1
     /\ \A style \in DESIGN_STYLES :
          handle_style_choice(1, style) =>
            /\ Get(Profile(users', 1, now), "preferred_style", None) = style
            /\ \E t \in TaskIds :
                 /\ Idle(t) /\ tasks'[t].pc = "ask" /\ tasks'[t].user = 1 /\ tasks'[t].k = 2
     /\ \A t \in TaskIds :
          (tasks[t].pc = "ask" /\ tasks'[t].pc = "idle" /\ ev'.reply = "question") =>
            /\ tasks[t].h \in SurveyStarts =>
                 /\ fsm'[tasks[t].user] = 1
                 /\ Get(Profile(users', tasks[t].user, now), "in_survey_mode", None) = True
            /\ tasks[t].h = "handle_style_choice" =>
                 /\ fsm'[tasks[t].user] = 2
                 /\ Get(Profile(users', tasks[t].user, now), "preferred_style", None)
                      \in DESIGN_STYLES]_vars

\* a survey restarted in the middle of an earlier one: the style "modern" is
\* stored and the FSM waits for question 2
ModernChosenAfterRestart ==
  /\ used.test = 1 /\ used.survey = 1
  /\ ev.h = "ask_question" /\ AllIdle
  /\ fsm[1] = 2
  /\ Get(Profile(users, 1, now), "preferred_style", None) = "modern"
  /\ Get(Profile(users, 1, now), "in_survey_mode", None) = True
  /\ Has(conversations, 1) /\ Len(conversations[UidStr(1)]) >= 4

\* ---- C21 (Spec)
\* C21: the question the FSM of a user waits for changes only from k to
\* k + 1, or to none (a survey start or the completion clears the state; the
\* first prompt of a new run then opens question 1); a press on a style
\* button after question 1 never brings it back to question 2.
QuestionsOnlyAdvance ==
  [][\A u \in UserIds :
       fsm'[u] # fsm[u] => (fsm'[u] = 0 \/ fsm'[u] = fsm[u] + 1)]_vars

\* ---- C22 (Spec)
\* C22: whenever no handler of a user is under way, the FSM waits for one
\* of his 15 questions if and only if his stored in_survey_mode is True.
FsmAgreesWithFlag ==
  \A u \in UserIds :
    (\A t \in TaskIds : tasks[t].user # u) =>
      ((fsm[u] \in 1..NumQuestions)
         <=> (Get(Profile(users, u, now), "in_survey_mode", False) = True))

\* ---- C23 (Spec)
\* C23: in no reachable state does the stored record of a user hold
\* pending_confirmation = 'restart' together with in_survey_mode = True (a
\* state in which handle_text_message drops the user's next text before it
\* looks at pending_confirmation).
PendingOnlyOutsideSurvey ==
  \A u \in UserIds :
    ~ /\ Get(Profile(users, u, now), "pending_confirmation", None) = "restart"
      /\ Get(Profile(users, u, now), "in_survey_mode", False) = True

\* ---- C24 (SpecFault)
\* C24: once an affirmative answer to the confirmation question has been
\* handled, the stored record holds no pending_confirmation, whether the
\* reset went through or failed and the failure message was sent.
AffirmativeClearsPending ==
  [][\A u \in UserIds :
       (/\ ev'.recv /\ ev'.user = u /\ inputs' = inputs + 1
        /\ ev'.h \in {"handle_restart_confirmation:yes",
                      "handle_restart_confirmation:yes_failed"}) =>
         Get(Profile(users', u, now), "pending_confirmation", None) = None]_vars

\* ---- C25 (SpecConfirm)
\* the log of u ends with the user entry `said` and the bot entry `reply`
EndsWithTurn(conv, u, said, reply) ==
  LET l == LogOf(conv, u)
  IN  /\ Len(l) >= 2
      /\ l[Len(l) - 1].message = said /\ l[Len(l) - 1].sender = "user"
      /\ l[Len(l)].message = reply /\ l[Len(l)].sender = "bot"
AnswerHandled(u) ==
  /\ ev'.recv /\ ev'.user = u /\ inputs' = inputs + 1
  /\ ev'.h \in ConfirmationBranches
\* C25 as stated: after any confirmation answer the log ends with the
\* user's answer followed by the bot's reply.
AnswerAndReplyEndLog ==
  [][\A u \in UserIds :
       (AnswerHandled(u) /\ "conversations" \notin unreadable) =>
         EndsWithTurn(conversations', u, Strip(ev'.text), ev'.reply)]_vars
\* C25: after a negative or unrecognised answer, or an affirmative one
\* whose reset failed, the log ends with the user's answer followed by the
\* bot's reply; after an affirmative answer whose reset succeeded the log
\* is the reset notice alone (the answer was logged and then cleared).
AnswerLoggedUnlessReset ==
  [][\A u \in UserIds :
       (AnswerHandled(u) /\ "conversations" \notin unreadable) =>
         IF ev'.h = "handle_restart_confirmation:yes"
         THEN /\ Len(LogOf(conversations', u)) = 1
              /\ LogOf(conversations', u)[1].message = RestartMessage
              /\ LogOf(conversations', u)[1].sender = "bot"
         ELSE /\ EndsWithTurn(conversations', u, Strip(ev'.text), ev'.reply)
              /\ Len(LogOf(conversations', u)) = Len(LogOf(conversations, u)) + 2]_vars
\* a refused reset: the log ends with 'NO' and the cancel message, after
\* the entries it had
CancelLogged ==
  /\ ev.h = "handle_restart_confirmation:no" /\ ev.text = "NO"
  /\ EndsWithTurn(conversations, 1, "NO", CancelMessage)
  /\ Len(LogOf(conversations, 1)) > 2

\* ---- C26 (SpecConfirm)
\* C26: a handler that was suspended on its AI call while a confirmed reset
\* of the same user ran (the stored record is not the one of its arrival any
\* more: the reset gave it a new created_at) writes no profile field and no
\* log entry when it goes on.
ResetFencesEarlierTurns ==
  [][\A t \in TaskIds :
       (/\ tasks[t].pc = "ai_text" /\ tasks'[t].pc = "idle"
        /\ Get(Profile(users, tasks[t].user, now), "created_at", None)
             # Get(tasks[t].before.profile, "created_at", None)) =>
         /\ Profile(users', tasks[t].user, now) = Profile(users, tasks[t].user, now)
         /\ LogOf(conversations', tasks[t].user) = LogOf(conversations, tasks[t].user)]_vars

\* ---- C27 (Spec)
\* C27: when a handler goes on after its AI call, the merge changes, beside
\* updated_at, only keys whose value the AI step changed in the snapshot
\* (language), to a value that differs from the snapshot's; every other key
\* of the stored record, as other handlers left it meanwhile, stays.
MergeKeepsConcurrentWrites ==
  [][\A t \in TaskIds :
       (tasks[t].pc \in {"ai_text", "ai_photo"} /\ tasks'[t].pc = "idle") =>
         LET u == tasks[t].user
             snap == tasks[t].session
             cur == Profile(users, u, now)
             new == Profile(users', u, now)
         IN  /\ ev'.wrote \subseteq {"language"}
             /\ \A k \in DOMAIN cur \cup DOMAIN new :
                  Get(new, k, "<absent>") # Get(cur, k, "<absent>") =>
                    \/ k = "updated_at"
                    \/ /\ k \in ev'.wrote
                       /\ Get(new, k, "<absent>") # Get(snap, k, None)
                       /\ Get(new, k, "<absent>") = DetectLanguage(tasks[t].text)]_vars

\* a text handler has merged after its AI call, and the record holds the
\* pending_confirmation that /restart stored while the call was in flight
MergedBesideRestart ==
  /\ ev.h = "handle_text_message:merge"
  /\ ev.wrote = {"language"}
  /\ Get(Profile(users, 1, now), "pending_confirmation", None) = "restart"
  /\ Get(Profile(users, 1, now), "language", None) = "english"

\* ---- C28 (Spec)
\* the media group g is marked in the stored record of u
GroupSeen(tbl, u, g) == Truthy(Get(Profile(tbl, u, 0), "media_group_" \o g, None))
PhotoArrived(u, h) ==
  ev'.recv /\ ev'.user = u /\ inputs' = inputs + 1 /\ ev'.h = h
HoldsAnswersOrMerged(session) ==
  \/ \E k \in 1..NumQuestions : Truthy(Get(session, AnswerFields[k], None))
  \/ Get(session, "language", "auto") # "auto"
\* C29: a reset request of a user whose record holds survey answers (of a
\* finished or unfinished survey) or AI-merged fields is answered with the
\* confirmation question and stores pending_confirmation.
ResetOfferedForAnyData ==
  [][\A u \in UserIds :
       (/\ ev'.recv /\ ev'.user = u /\ inputs' = inputs + 1
        /\ ev'.h = "restart_command"
        /\ HoldsAnswersOrMerged(Profile(users, u, now))) =>
         /\ ev'.reply = ConfirmationText
         /\ Get(Profile(users', u, now), "pending_confirmation", None) = "restart"]_vars

\* ---- C30 (Spec)
\* C30: a text that is not blank and arrives while the user's survey is
\* open (in_survey_mode is True, the wait for the style choice of question 1
\* included) or while a confirmation is pending, and is not taken as the
\* answer of a survey question, is answered.
ActiveProtocolAnswers ==
  [][\A u \in UserIds :
       (/\ ev'.recv /\ ev'.user = u /\ inputs' = inputs + 1
        /\ ev'.text # None /\ Strip(ev'.text) # ""
        /\ ev'.h \in TextPieces
        /\ \/ Get(Profile(users, u, now), "in_survey_mode", False) = True
           \/ Get(Profile(users, u, now), "pending_confirmation", None) = "restart") =>
         ev'.reply # ""]_vars

\* ---- C31 (SpecSurvey)
\* the answers of the fifteen questions as the record of u holds them
StoredAnswers(tbl, u) ==
  [k \in 1..NumQuestions |-> Get(Profile(tbl, u, 0), AnswerFields[k], None)]
\* C31: while the survey is at question k (2 <= k <= 15), a message with a
\* text writes that text as the answer of k and starts the step to k+1 (or
\* the completion), and a message without text (a photo) leaves the stored
\* answers and the current question as they were: nothing is written and
\* no step to the next question is started.
OnlyTextAnswers ==
  [][\A u \in UserIds :
       (/\ ev'.recv /\ ev'.user = u /\ inputs' = inputs + 1
        /\ fsm[u] \in 2..NumQuestions
        /\ ev'.h \in {"handle_question", "handle_personal_touch"}) =>
         IF ev'.text # None
         THEN /\ StoredAnswers(users', u) =
                   [StoredAnswers(users, u) EXCEPT ![fsm[u]] = ev'.text]
              /\ \E t \in TaskIds : tasks'[t] # tasks[t] /\ tasks'[t].user = u
         ELSE /\ StoredAnswers(users', u) = StoredAnswers(users, u)
              /\ tasks' = tasks /\ fsm' = fsm]_vars

\* ---- C32 (SpecDialogue)
\* C32: when the vision completion of a photo turn fails, the turn does not
\* end there with a fixed text: a further (text-only) completion is started
\* and the handler stays suspended on it.
VisionFailureTriesText ==
  [][\A t \in TaskIds :
       handle_photo_message_ai_returned(t, FALSE) =>
         /\ ev'.ai
         /\ tasks'[t].pc # "idle"
         /\ ev'.reply = ""]_vars

\* ---- C33 (SpecReset)
\* C33: whenever the affirmative answer is handled with the success message
\* as the reply, the profile is the fresh record and nothing of the log the
\* user had before is left: the log holds at most the reset notice.
SuccessMeansLogCleared ==
  [][\A u \in UserIds :
       (/\ ev'.h = "handle_restart_confirmation:yes" /\ ev'.user = u
        /\ inputs' = inputs + 1
        /\ ev'.reply = RestartMessage) =>
         /\ Get(Profile(users', u, 0), "survey_completed", None) = False
         /\ \A k \in 1..NumQuestions : AnswerFields[k] \notin DOMAIN Profile(users', u, 0)
         /\ \A i \in 1..Len(LogOf(conversations', u)) :
              LogOf(conversations', u)[i].message = RestartMessage]_vars

\* ---- C34 (SpecConfirm)
\* the text is not blank and neither an affirmative nor a negative answer
Unrecognised(text) ==
  /\ text # None /\ Strip(text) # ""
  /\ Strip(Lower(text)) \notin AFFIRMATIVE \cup NEGATIVE
\* C34: a text that is neither affirmative nor negative and arrives while
\* pending_confirmation is set (outside a survey) takes the re-prompt branch:
\* the users table is left as it was, with pending_confirmation still set,
\* nothing is reset, no completion is started and the reply is the re-prompt.
\* As the profile after the step is the profile before it, the next such
\* text is handled the same way, any number of times.
RepromptKeepsPending ==
  [][\A u \in UserIds :
       (/\ ev'.recv /\ ev'.user = u /\ inputs' = inputs + 1
        /\ ev'.h \in TextPieces
        /\ Unrecognised(ev'.text)
        /\ Get(Profile(users, u, now), "pending_confirmation", None) = "restart"
        /\ ~ Truthy(Get(Profile(users, u, now), "in_survey_mode", False))) =>
         /\ ev'.h = "handle_restart_confirmation:other"
         /\ users' = users
         /\ Get(Profile(users', u, now), "pending_confirmation", None) = "restart"
         /\ ev'.wrote = {} /\ ~ ev'.ai
         /\ ev'.reply = InvalidMessage
         /\ tasks' = tasks]_vars

\* two unrecognised answers in a row were each answered with the re-prompt
\* and the request is still pending
RepromptedTwice ==
  /\ ev.h = "handle_restart_confirmation:other" /\ ev.user = 1
  /\ inputs = 3
  /\ Get(Profile(users, 1, now), "pending_confirmation", None) = "restart"
  /\ LET l == LogOf(conversations, 1)
     IN  /\ Len(l) >= 4
         /\ l[Len(l)].message = InvalidMessage /\ l[Len(l) - 1].message = "maybe"
         /\ l[Len(l) - 2].message = InvalidMessage /\ l[Len(l) - 3].message = "maybe"

\* ---- C35 (SpecDialogue)
\* the text holds a category keyword of its language and a specific indicator
SpecificProductQuery(text) ==
  /\ PartsOf(Lower(text)) \cap CategoryKeywords(DetectLanguage(text)) # {}
  /\ PartsOf(Lower(text)) \cap SPECIFIC_INDICATORS # {}
\* C35: of the texts that reach the dialogue path, only those for which the
\* product detection finds a keyword and a specific indicator are answered
\* with the list of store links; a text for which the detection finds nothing
\* or a keyword without a specific indicator is passed to the AI completion
\* (the detection runs when the AI backend is configured).
NonSpecificGoesToAi ==
  [][\A u \in UserIds :
       (/\ ev'.recv /\ ev'.user = u /\ inputs' = inputs + 1
        /\ ev'.h \in {"handle_text_message:ai", "handle_text_message:product"}) =>
         /\ ev'.h = "handle_text_message:product" => SpecificProductQuery(Strip(ev'.text))
         /\ (client /\ ~ SpecificProductQuery(Strip(ev'.text))) =>
              /\ ev'.ai /\ ev'.reply = ""
              /\ \E t \in TaskIds :
                   /\ tasks[t].pc = "idle" /\ tasks'[t].pc = "ai_text"
                   /\ tasks'[t].text = Strip(ev'.text)]_vars

\* a keyword without a specific indicator went to the AI completion
KeywordOnlyWentToAi ==
  /\ ev.h = "handle_text_message:ai" /\ ev.user = 1 /\ ev.recv
  /\ ev.text = "sofa" /\ ev.ai
  /\ client

\* ---- C36 (Spec)
\* C36: from every state, the step that handles /test and the step that
\* handles /survey are the same transition: the update is taken by its
\* survey-start handler, which stores in_survey_mode = True, clears the FSM
\* state and goes on to ask question 1, also when a question of a running
\* survey is open.
EntryPointsAlike ==
  [][\A u \in UserIds :
       (/\ ev'.recv /\ ev'.user = u /\ inputs' = inputs + 1
        /\ \/ ev'.h \in SurveyStarts
           \/ ev'.text \in {"/test", "/survey"}) =>
         /\ ev'.h \in SurveyStarts
         /\ Get(Profile(users', u, 0), "in_survey_mode", None) = True
         /\ fsm'[u] = 0
         /\ \E t \in TaskIds :
              /\ tasks[t].pc = "idle" /\ tasks'[t].pc = "ask"
              /\ tasks'[t].user = u /\ tasks'[t].k = 1]_vars

\* ---- C37 (SpecHistory)
Min(a, b) == IF a <= b THEN a ELSE b
\* lst holds the last k entries of log, in the order of the log
IsLastOf(lst, k, log) ==
  /\ Len(lst) = k
  /\ \A i \in 1..k : lst[i] = log[Len(log) - k + i]
HistoryAtMostLimit ==
  [][\A u \in UserIds, limit \in 0..MaxLimit :
       HistoryRead(u, limit) =>
         /\ Len(ev'.result) <= limit
         /\ limit = 0 => ev'.result = << >>]_vars

\* ---- C39 (SpecLength)
\* C39: every text handed to message.answer is at most MAX_REPLY characters
\* plus the truncation marker long: a completion of more than 3000
\* characters leaves the AI step cut to its first 3000 characters and the
\* marker, and neither the dialogue reply with the survey suggestion, nor
\* the photo analysis, nor the product link list, nor the survey summary is
\* longer than that.
RepliesWithinMaximum ==
  [][/\ \A completion \in CompletionLens :
          /\ completion > MAX_REPLY => Truncated(completion) = MAX_REPLY + MARKER_LEN
          /\ completion <= MAX_REPLY => Truncated(completion) = completion
     /\ ev'.h \in {"handle_text_message:answer", "handle_photo_message:answer",
                   "handle_text_message:product_answer", "complete_design_survey:answer"} =>
          ev'.len <= MAX_REPLY + MARKER_LEN]_vars

\* ---- C40 (SpecContext)
\* the context message of a log entry
AsContext(entry) ==
  [role |-> IF entry.sender = "user" THEN "user" ELSE "assistant",
   content |-> entry.message]
\* C40: the context a dialogue or photo turn builds for its completion is
\* the last min(5, n) of the n entries the log of the user holds at that
\* moment, oldest first, an entry of the user with role user and an entry
\* of the bot with role assistant; the turn has logged nothing by then, its
\* own message is appended when the completion has returned; and the
\* context built for a session without user_id is empty.
ContextIsRecentLog ==
  [][/\ \A u \in UserIds :
          (/\ ev'.ai /\ ev'.user = u
           /\ ev'.h \in {"handle_text_message:ai", "handle_photo_message:ai"}) =>
            LET log == LogOf(conversations, u)
                k == Min(CONTEXT_LIMIT, Len(log))
            IN  /\ Len(ev'.result) = k
                /\ \A i \in 1..k : ev'.result[i] = AsContext(log[Len(log) - k + i])
                /\ conversations' = conversations
     /\ \A t \in TaskIds, ok \in BOOLEAN :
          handle_text_message_ai_returned(t, ok) =>
            LET before == LogOf(conversations, tasks[t].user)
                after == LogOf(conversations', tasks[t].user)
            IN  /\ Len(after) >= 2
                /\ after[Len(after) - 1].message = tasks[t].text
                /\ after[Len(after) - 1].sender = "user"
                /\ after[Len(after) - 1].timestamp = Time(now)
                /\ after[Len(after)].sender = "bot"
                /\ Len(before) + 2 <= LOG_CAP => SubSeq(after, 1, Len(before)) = before
     /\ \A user_session \in HistorySessions :
          (ContextBuilt(user_session) /\ "user_id" \notin DOMAIN user_session) =>
            ev'.result = << >>]_vars

\* a turn of a user with more than five logged messages built a context of
\* the five most recent ones
ContextOfFive ==
  /\ ev.h = "handle_text_message:ai" /\ ev.ai /\ ev.user = 1
  /\ Len(LogOf(conversations, 1)) > CONTEXT_LIMIT
  /\ Len(ev.result) = CONTEXT_LIMIT
  /\ ev.result[CONTEXT_LIMIT].role = "assistant"
  /\ ev.result[CONTEXT_LIMIT].content = Summary

====
